---- MODULE Spec2Model ----
(***************************************************************************)
(* The arena subsystem of mimalloc (src/src/arena.c): a registry of        *)
(* arenas, each carved into blocks and sub-allocated through atomic        *)
(* bitmaps, with deferred purging and abandoned-segment tracking.          *)
(*                                                                         *)
(* Every thread is a small state machine: pc[t] is its position inside     *)
(* the arena function it is executing and loc[t] holds that function's     *)
(* locals.  One action is one atomic access to shared memory (a bitmap     *)
(* operation, an atomic load/store/CAS, an OS call) together with the      *)
(* thread-local computation that follows it.                               *)
(*                                                                         *)
(* A bitmap is the set of the indices of its set bits; field i of a        *)
(* bitmap holds the bits i*MI_BITMAP_FIELD_BITS .. (i+1)*.. - 1.           *)
(* Sizes are counted in quarters of a block (MI_ARENA_BLOCK_SIZE = 4).      *)
(***************************************************************************)
EXTENDS Integers, FiniteSets, Sequences, TLC

\* ---------------------------------------------------------------- bounds
\* bits per bitmap field (64 in the build; scaled down)
MI_BITMAP_FIELD_BITS == 2
\* number of threads
NThreads == 2
\* number of segments (outstanding allocations) the callers keep at a time
MaxSegs == 2
\* capacity of the arena registry (112 in the build; scaled down)
MI_MAX_ARENAS == 6
\* number of blocks of the arena the threads share
ArenaBlocks == 3
\* the clock advances TickMs at a time and stops at MaxTime
TickMs == 10
MaxTime == 10
\* width of a size_t counter in bits (64 in the build; scaled down)
SizeBits == 3
\* number of arenas added with mi_manage_os_memory in the runs that fill the registry
MaxManaged == 2

\* ------------------------------------------------------ program constants
\* arena.c:37, in quarters of a block (so that there are sizes below
\* MI_ARENA_MIN_OBJ_SIZE, arena.c:38)
MI_ARENA_BLOCK_SIZE == 4
MI_ARENA_MIN_OBJ_SIZE == MI_ARENA_BLOCK_SIZE \div 2
MI_SEGMENT_ALIGN == MI_ARENA_BLOCK_SIZE

Threads == 1..NThreads
SegIds == 1..MaxSegs
NoThread == 0

SetMin(S) == CHOOSE x \in S : \A y \in S : x <= y

_mi_divide_up(size, divider) == (size + divider - 1) \div divider
_mi_align_up(size, alignment) == _mi_divide_up(size, alignment) * alignment

\* --------------------------------------------------------------- bitmaps
mi_bitmap_index_create(idx, bitidx) == idx * MI_BITMAP_FIELD_BITS + bitidx
mi_bitmap_index_field(bitmap_idx) == bitmap_idx \div MI_BITMAP_FIELD_BITS
mi_bitmap_index_bit_in_field(bitmap_idx) == bitmap_idx % MI_BITMAP_FIELD_BITS

\* the bit indices of a run of `count` bits starting at `bitmap_idx`
Run(count, bitmap_idx) == bitmap_idx .. (bitmap_idx + count - 1)

\* the bits of field `idx`, as bit positions inside the field
FieldOf(bitmap, idx) ==
  { b \in 0..(MI_BITMAP_FIELD_BITS - 1) : mi_bitmap_index_create(idx, b) \in bitmap }

\* claim_across: force the bits set; .all_zero: none was set, .any_zero: some was clear
_mi_bitmap_claim_across(bitmap, count, bitmap_idx) ==
  [ bitmap   |-> bitmap \cup Run(count, bitmap_idx),
    all_zero |-> Run(count, bitmap_idx) \cap bitmap = {},
    any_zero |-> ~(Run(count, bitmap_idx) \subseteq bitmap) ]

\* unclaim_across: clear the bits; .all_one: all were set
_mi_bitmap_unclaim_across(bitmap, count, bitmap_idx) ==
  [ bitmap  |-> bitmap \ Run(count, bitmap_idx),
    all_one |-> Run(count, bitmap_idx) \subseteq bitmap ]

IsClaimedAlwaysBug(bitmap, count, bitmap_idx) == TRUE
_mi_bitmap_is_claimed_across(bitmap, count, bitmap_idx) ==
  Run(count, bitmap_idx) \subseteq bitmap

\* try_claim: one CAS that sets the bits only if all of them are clear
_mi_bitmap_try_claim(bitmap, count, bitmap_idx) ==
  IF Run(count, bitmap_idx) \cap bitmap = {}
  THEN [ ok |-> TRUE,  bitmap |-> bitmap \cup Run(count, bitmap_idx) ]
  ELSE [ ok |-> FALSE, bitmap |-> bitmap ]

\* the fields in the order the search visits them: from start_field_idx, wrapping
SearchOrder(field_count, start_field_idx) ==
  [ k \in 1..field_count |-> (start_field_idx + k - 1) % field_count ]

\* the start indices in field `idx` of clear runs of `count` bits inside the bitmap
ClearRunsIn(bitmap, field_count, idx, count) ==
  { s \in { mi_bitmap_index_create(idx, b) : b \in 0..(MI_BITMAP_FIELD_BITS - 1) } :
      /\ s + count <= field_count * MI_BITMAP_FIELD_BITS
      /\ Run(count, s) \cap bitmap = {} }

\* try_find_from_claim_across: the first clear run in search order, claimed as a whole
_mi_bitmap_try_find_from_claim_across(bitmap, field_count, start_field_idx, count) ==
  LET order == SearchOrder(field_count, start_field_idx)
      hits  == { k \in 1..field_count : ClearRunsIn(bitmap, field_count, order[k], count) # {} }
  IN  IF hits = {}
      THEN [ ok |-> FALSE, bitmap |-> bitmap, bitmap_idx |-> 0 ]
      ELSE LET idx == SetMin(ClearRunsIn(bitmap, field_count, order[SetMin(hits)], count))
           IN  [ ok |-> TRUE, bitmap |-> bitmap \cup Run(count, idx), bitmap_idx |-> idx ]

\* ----------------------------------------------------------------- memid
_mi_memid_create(memkind) ==
  [ memkind |-> memkind, initially_zero |-> FALSE, initially_committed |-> FALSE,
    is_pinned |-> FALSE, id |-> 0, block_index |-> 0, is_exclusive |-> FALSE ]

_mi_memid_none == _mi_memid_create("MI_MEM_NONE")

mi_memkind_is_os(memkind) == memkind = "MI_MEM_OS"

mi_memid_create_arena(id, is_exclusive, bitmap_index) ==
  [ _mi_memid_create("MI_MEM_ARENA") EXCEPT
      !.id = id, !.block_index = bitmap_index, !.is_exclusive = is_exclusive ]

\* ------------------------------------------------------------ arena ids
_mi_arena_id_none == 0
mi_block_count_of_size(size) == _mi_divide_up(size, MI_ARENA_BLOCK_SIZE)
mi_arena_block_size(bcount) == bcount * MI_ARENA_BLOCK_SIZE

mi_arena_id_is_suitable(arena_id, arena_is_exclusive, req_arena_id) ==
  \/ (~arena_is_exclusive /\ req_arena_id = _mi_arena_id_none)
  \/ arena_id = req_arena_id
\* ------------------------------------------------------------------ state
VARIABLES
  mi_arenas,        \* arena.c:65  registry slot -> arena descriptor or NULL
  mi_arena_count,   \* arena.c:66
  purge_guard,      \* arena.c:913 the single-writer guard of the sweep
  abandoned_count,  \* arena.c:1151
  now,              \* the monotonic clock, _mi_clock_now()
  opt,              \* the options and _mi_preloading(), fixed during a run
  segs,             \* the segments (allocations) the callers keep: slot -> memid, size, thread_id
  pc,               \* thread -> position in the function it executes
  loc,              \* thread -> the locals of that function
  large_page_try_ok,    \* prim.c:404  the large-page attempts still to skip
  mi_arena_static_top,  \* arena.c:146 the bytes of mi_arena_static handed out
  mi_arena_static,      \* arena.c:145 the static buffer: the set of its non-zero bytes
  static_ranges         \* the ranges mi_arena_static_zalloc has returned (history)

\* the statics of unix_mmap and of the meta-arena; the arena operations do not touch them
statics == << large_page_try_ok, mi_arena_static_top, mi_arena_static, static_ranges >>

vars == << mi_arenas, mi_arena_count, purge_guard, abandoned_count, now, opt, segs, pc, loc, statics >>

\* prim.c:404 and arena.c:145-146: statics start as zero
StaticsInit ==
  /\ large_page_try_ok = 0
  /\ mi_arena_static_top = 0
  /\ mi_arena_static = {}
  /\ static_ranges = {}

NULL == [ null |-> TRUE ]
NoSeg == [ memid |-> _mi_memid_none, size |-> 0, thread_id |-> NoThread ]
Idle == [ op |-> "idle" ]

ArenaIdx == 0..(MI_MAX_ARENAS - 1)

\* arena.c:76
mi_arena_id_index(id) == IF id <= 0 THEN MI_MAX_ARENAS ELSE id - 1
\* arena.c:80
mi_arena_id_create(arena_index) == arena_index + 1

\* arena.c:666
PurgeDelaySignBug ==
  IF opt.purge_delay * opt.arena_purge_mult < 0 THEN 10 ELSE opt.purge_delay * opt.arena_purge_mult
mi_arena_purge_delay == opt.purge_delay * opt.arena_purge_mult

\* ------------------------------------------------------- arena creation
\* the bits of the last field that lie beyond block_count (arena.c:1349-1355)
PostBitsBug(bcount, fields) == {}
PostBits(bcount, fields) ==
  LET post == (fields * MI_BITMAP_FIELD_BITS) - bcount
  IN  IF post > 0
      THEN Run(post, mi_bitmap_index_create(fields - 1, MI_BITMAP_FIELD_BITS - post))
      ELSE {}

\* arena.c:1316 with the block count rounded up instead of down
BlockCountCeilBug(size, is_large, numa_node, exclusive, memid) ==
  LET bcount == _mi_divide_up(size, MI_ARENA_BLOCK_SIZE)
      fields == _mi_divide_up(bcount, MI_BITMAP_FIELD_BITS)
  IN  [ id               |-> _mi_arena_id_none,
        memid            |-> memid,
        block_count      |-> bcount,
        field_count      |-> fields,
        numa_node        |-> numa_node,
        exclusive        |-> exclusive,
        is_large         |-> is_large,
        search_idx       |-> 0,
        purge_expire     |-> 0,
        blocks_inuse     |-> PostBits(bcount, fields),
        blocks_dirty     |-> {},
        blocks_abandoned |-> {},
        \* NULL when the memory is pinned; all fields 0xFF when initially committed
        blocks_committed |-> IF ~memid.is_pinned /\ memid.initially_committed
                             THEN 0..(fields * MI_BITMAP_FIELD_BITS - 1) ELSE {},
        blocks_purge     |-> {},
        \* the blocks whose bytes are all zero (the memory itself, not a field)
        mem_zero         |-> IF memid.initially_zero THEN 0..(bcount - 1) ELSE {},
        \* the blocks whose pages are committed (the memory itself, not a field)
        mem_committed    |-> IF memid.initially_committed THEN 0..(bcount - 1) ELSE {},
        \* the time of the clock when blocks were last marked in blocks_purge
        \* (history, not a field)
        mark_time        |-> 0,
        \* the blocks that have been handed out by an allocation (history, not a
        \* field; kept for arenas created over zero memory)
        ever_alloc       |-> {} ]

\* arena.c:1307-1355: the descriptor mi_manage_os_memory_ex2 builds (before mi_arena_add)
NewArena(size, is_large, numa_node, exclusive, memid) ==
  LET bcount == size \div MI_ARENA_BLOCK_SIZE
      fields == _mi_divide_up(bcount, MI_BITMAP_FIELD_BITS)
  IN  [ id               |-> _mi_arena_id_none,
        memid            |-> memid,
        block_count      |-> bcount,
        field_count      |-> fields,
        numa_node        |-> numa_node,
        exclusive        |-> exclusive,
        is_large         |-> is_large,
        search_idx       |-> 0,
        purge_expire     |-> 0,
        blocks_inuse     |-> PostBits(bcount, fields),
        blocks_dirty     |-> {},
        blocks_abandoned |-> {},
        \* NULL when the memory is pinned; all fields 0xFF when initially committed
        blocks_committed |-> IF ~memid.is_pinned /\ memid.initially_committed
                             THEN 0..(fields * MI_BITMAP_FIELD_BITS - 1) ELSE {},
        blocks_purge     |-> {},
        \* the blocks whose bytes are all zero (the memory itself, not a field)
        mem_zero         |-> IF memid.initially_zero THEN 0..(bcount - 1) ELSE {},
        \* the blocks whose pages are committed (the memory itself, not a field)
        mem_committed    |-> IF memid.initially_committed THEN 0..(bcount - 1) ELSE {},
        \* the time of the clock when blocks were last marked in blocks_purge
        \* (history, not a field)
        mark_time        |-> 0,
        \* the blocks that have been handed out by an allocation (history, not a
        \* field; kept for arenas created over zero memory)
        ever_alloc       |-> {} ]

\* arena.c:1360
ExternalMemid(is_committed, is_large, is_zero) ==
  [ _mi_memid_create("MI_MEM_EXTERNAL") EXCEPT
      !.initially_committed = is_committed, !.initially_zero = is_zero, !.is_pinned = is_large ]

\* arena.c:1289-1305, run without interference: the registry after adding `arena`
ArenaAdded(arenas, count, arena) ==
  IF count >= MI_MAX_ARENAS
  THEN [ ok |-> FALSE, arenas |-> arenas, count |-> count, id |-> -1 ]
  ELSE [ ok     |-> TRUE,
         arenas |-> [ arenas EXCEPT ![count] = [ arena EXCEPT !.id = mi_arena_id_create(count) ] ],
         count  |-> count + 1,
         id     |-> mi_arena_id_create(count) ]

EmptyRegistry == [ i \in ArenaIdx |-> NULL ]

\* the options of a run
Options(purge_delay, arena_reserve, preloading) ==
  [ purge_delay          |-> purge_delay,
    arena_purge_mult     |-> 1,
    arena_reserve        |-> arena_reserve,
    arena_eager_commit   |-> 1,
    disallow_arena_alloc |-> FALSE,
    disallow_os_alloc    |-> FALSE,
    has_virtual_reserve  |-> TRUE,
    has_overcommit       |-> TRUE,
    preloading           |-> preloading,
    \* what the OS does on a purge in this run: a decommit that protects the pages
    \* (needs_recommit), and whether purged pages read as zero afterwards
    os_needs_recommit    |-> FALSE,
    os_purge_zeroes      |-> FALSE ]

\* the purge delays of the runs: immediate and deferred (10 ms, so delay/10 = 1)
PurgeDelays == { 0, 10 }

\* The state after start-up: one shared arena over external memory, registered
\* with mi_manage_os_memory (not exclusive, no NUMA node), no segments, all
\* threads outside the allocator.
Start(is_committed, is_zero, options) ==
  /\ LET a == NewArena(mi_arena_block_size(ArenaBlocks), FALSE, -1, FALSE,
                       ExternalMemid(is_committed, FALSE, is_zero))
         r == ArenaAdded(EmptyRegistry, 0, a)
     IN  /\ mi_arenas = r.arenas
         /\ mi_arena_count = r.count
  /\ opt = options
  /\ purge_guard = 0
  /\ abandoned_count = 0
  /\ now = 0
  /\ StaticsInit
  /\ segs = [ s \in SegIds |-> NoSeg ]
  /\ pc = [ t \in Threads |-> "idle" ]
  /\ loc = [ t \in Threads |-> Idle ]

\* The runs of Spec: the arena is committed memory with unknown content, requests
\* that do not fit get no OS memory, purges are immediate or deferred.
Init ==
  \E d \in PurgeDelays :
    Start(TRUE, FALSE, [ Options(d, 0, FALSE) EXCEPT !.disallow_os_alloc = TRUE ])
\* ------------------------------------------------------------ allocation
EmptySlots == { s \in SegIds : segs[s].memid.memkind = "MI_MEM_NONE" }

\* the threads inside _mi_arena_alloc_aligned that have no result yet
Allocating ==
  { t \in Threads : pc[t] \in { "a_try", "a_reserve", "r_os", "r_store", "a_os", "a_purge", "a_commit" } }

\* the caller keeps what _mi_arena_alloc_aligned returned as a segment it owns
Keep(t, memid, size) ==
  [ segs EXCEPT ![SetMin(EmptySlots)] =
      [ memid |-> memid, size |-> size, thread_id |-> t ] ]

SetArena(i, a) == [ mi_arenas EXCEPT ![i] = a ]

Return(t) ==
  /\ pc' = [ pc EXCEPT ![t] = "idle" ]
  /\ loc' = [ loc EXCEPT ![t] = Idle ]

Goto(t, label, l) ==
  /\ pc' = [ pc EXCEPT ![t] = label ]
  /\ loc' = [ loc EXCEPT ![t] = l ]

\* a request: the arguments of _mi_arena_alloc_aligned and the caller's NUMA node
Request(size, alignment, align_offset, commit, allow_large, req_arena_id, numa_node) ==
  [ size |-> size, alignment |-> alignment, align_offset |-> align_offset, commit |-> commit,
    allow_large |-> allow_large, req_arena_id |-> req_arena_id, numa_node |-> numa_node ]

\* arena.c:562,571: is the request tried in the arenas at all?
ArenaForcedBug(req) ==
  /\ req.size >= MI_ARENA_MIN_OBJ_SIZE
  /\ req.alignment <= MI_SEGMENT_ALIGN
  /\ req.align_offset = 0
ArenaSmallBug(req) ==
  /\ (~opt.disallow_arena_alloc \/ req.req_arena_id # _mi_arena_id_none)
  /\ req.alignment <= MI_SEGMENT_ALIGN
  /\ req.align_offset = 0
ArenaEligible(req) ==
  /\ (~opt.disallow_arena_alloc \/ req.req_arena_id # _mi_arena_id_none)
  /\ req.size >= MI_ARENA_MIN_OBJ_SIZE
  /\ req.alignment <= MI_SEGMENT_ALIGN
  /\ req.align_offset = 0

\* arena.c:542-572 and 403-419: enter _mi_arena_alloc_aligned, load mi_arena_count
\* and set up the walk over the registry (pass 1: NUMA-affine, 2: other nodes,
\* 0: the requested arena only)
AllocEnter(t, req) ==
  /\ pc[t] = "idle"
  /\ Cardinality(EmptySlots) > Cardinality(Allocating)
  /\ LET max_arena == mi_arena_count
         l == [ op |-> "alloc", req |-> req, max_arena |-> max_arena, pass |-> 1, i |-> 0 ]
     IN  IF ~ArenaEligible(req) THEN Goto(t, "a_os", l)
         ELSE IF max_arena = 0 THEN Goto(t, "a_reserve", l)
         ELSE IF req.req_arena_id # _mi_arena_id_none
              THEN IF mi_arena_id_index(req.req_arena_id) < max_arena
                   THEN Goto(t, "a_try", [ l EXCEPT !.pass = 0,
                                                    !.i = mi_arena_id_index(req.req_arena_id) ])
                   ELSE Goto(t, "a_reserve", l)
              ELSE Goto(t, "a_try", l)
  /\ UNCHANGED << mi_arenas, mi_arena_count, purge_guard, abandoned_count, now, opt, statics, segs >>

\* arena.c:366-378: may arena `arena` serve the request in this pass?
ArenaSuitableBug(arena, req, match_numa_node) ==
  /\ arena # NULL
  /\ ~(~req.allow_large /\ arena.is_large)
NumaIgnoredBug(arena, req, match_numa_node) ==
  /\ arena # NULL
  /\ ~(~req.allow_large /\ arena.is_large)
  /\ mi_arena_id_is_suitable(arena.id, arena.exclusive, req.req_arena_id)
  /\ match_numa_node
ArenaSuitable(arena, req, match_numa_node) ==
  /\ arena # NULL
  /\ ~(~req.allow_large /\ arena.is_large)
  /\ mi_arena_id_is_suitable(arena.id, arena.exclusive, req.req_arena_id)
  /\ req.req_arena_id = _mi_arena_id_none =>
       LET numa_suitable == (req.numa_node < 0 \/ arena.numa_node < 0
                             \/ arena.numa_node = req.numa_node)
       IN  IF match_numa_node THEN numa_suitable ELSE ~numa_suitable

\* arena.c:208-210: where block `bindex` starts, as an offset from arena->start
mi_arena_block_start(arena, bindex) == mi_arena_block_size(bindex)

\* arena.c:220 as its comment has it: the search starts at the field in search_idx
SearchFromHintBug(arena, blocks) ==
  LET idx == arena.search_idx
      r   == _mi_bitmap_try_find_from_claim_across(arena.blocks_inuse, arena.field_count, idx, blocks)
  IN  IF r.ok
      THEN [ ok |-> TRUE, bitmap_idx |-> r.bitmap_idx,
             arena |-> [ arena EXCEPT !.blocks_inuse = r.bitmap,
                                      !.search_idx = mi_bitmap_index_field(r.bitmap_idx) ] ]
      ELSE [ ok |-> FALSE, bitmap_idx |-> 0, arena |-> arena ]

\* arena.c:218-226: claim `blocks` bits of blocks_inuse (the search starts at field 0)
mi_arena_try_claim(arena, blocks) ==
  LET idx == 0
      r   == _mi_bitmap_try_find_from_claim_across(arena.blocks_inuse, arena.field_count, idx, blocks)
  IN  IF r.ok
      THEN [ ok |-> TRUE, bitmap_idx |-> r.bitmap_idx,
             arena |-> [ arena EXCEPT !.blocks_inuse = r.bitmap,
                                      !.search_idx = mi_bitmap_index_field(r.bitmap_idx) ] ]
      ELSE [ ok |-> FALSE, bitmap_idx |-> 0, arena |-> arena ]

\* arena.c:432-456: where the walk over the registry goes after a failed try
AfterFailedTry(t, l) ==
  IF l.pass = 1 /\ l.i + 1 < l.max_arena THEN Goto(t, "a_try", [ l EXCEPT !.i = l.i + 1 ])
  ELSE IF l.pass = 1 /\ l.req.numa_node >= 0 THEN Goto(t, "a_try", [ l EXCEPT !.pass = 2, !.i = 0 ])
  ELSE IF l.pass = 2 /\ l.i + 1 < l.max_arena THEN Goto(t, "a_try", [ l EXCEPT !.i = l.i + 1 ])
  ELSE IF l.pass = 3 THEN Goto(t, "a_os", l)
  ELSE Goto(t, "a_reserve", l)

\* arena.c:319-387 and 233-256: one mi_arena_try_alloc_at_id: check the arena and
\* claim the blocks_inuse bits (pass 3: the arena that was just reserved)
AllocTry(t) ==
  /\ pc[t] = "a_try"
  /\ LET l      == loc[t]
         arena  == mi_arenas[l.i]
         bcount == mi_block_count_of_size(l.req.size)
     IN  IF ~ArenaSuitable(arena, l.req, l.pass # 2)
         THEN AfterFailedTry(t, l) /\ UNCHANGED mi_arenas
         ELSE LET c == mi_arena_try_claim(arena, bcount)
              IN  IF ~c.ok
                  THEN AfterFailedTry(t, l) /\ UNCHANGED mi_arenas
                  ELSE /\ mi_arenas' = SetArena(l.i, c.arena)
                       /\ Goto(t, "a_purge",
                               [ op |-> "alloc", req |-> l.req, arena_index |-> l.i,
                                 bcount |-> bcount, bitmap_index |-> c.bitmap_idx,
                                 p |-> mi_arena_block_start(arena, c.bitmap_idx),
                                 memid |-> [ mi_memid_create_arena(arena.id, arena.exclusive, c.bitmap_idx)
                                               EXCEPT !.is_pinned = arena.memid.is_pinned ] ])
  /\ UNCHANGED << mi_arena_count, purge_guard, abandoned_count, now, opt, statics, segs >>

\* arena.c:265: blocks_purge after the allocation took the blocks
PurgeUnclaimedBug(arena, bcount, bitmap_index) == arena.blocks_purge
PurgeUnclaimed(arena, bcount, bitmap_index) ==
  _mi_bitmap_unclaim_across(arena.blocks_purge, bcount, bitmap_index).bitmap

\* arena.c:263-266: none of the claimed blocks stays scheduled for a purge
AllocUnclaimPurge(t) ==
  /\ pc[t] = "a_purge"
  /\ LET l     == loc[t]
         arena == mi_arenas[l.arena_index]
     IN  /\ mi_arenas' =
              IF ~arena.memid.is_pinned
              THEN SetArena(l.arena_index,
                     [ arena EXCEPT !.blocks_purge = PurgeUnclaimed(arena, l.bcount, l.bitmap_index) ])
              ELSE mi_arenas
         /\ Goto(t, "a_commit", l)
  /\ UNCHANGED << mi_arena_count, purge_guard, abandoned_count, now, opt, statics, segs >>

\* arena.c:273-275: the dirty bits and memid.initially_zero
DirtyClaimBug(arena, bcount, bitmap_index) ==
  [ arena |-> arena, initially_zero |-> arena.memid.initially_zero ]
DirtyNotKeptBug(arena, bcount, bitmap_index) ==
  [ arena |-> arena,
    initially_zero |-> arena.memid.initially_zero
                       /\ _mi_bitmap_claim_across(arena.blocks_dirty, bcount, bitmap_index).all_zero ]
DirtyClaim(arena, bcount, bitmap_index) ==
  IF arena.memid.initially_zero
  THEN LET d == _mi_bitmap_claim_across(arena.blocks_dirty, bcount, bitmap_index)
       IN  [ arena |-> [ arena EXCEPT !.blocks_dirty = d.bitmap ], initially_zero |-> d.all_zero ]
  ELSE [ arena |-> arena, initially_zero |-> FALSE ]

\* what _mi_os_commit may answer on a range: it may fail, and it reports
\* is_zero only when the whole range is zero
OsCommitResults(arena, bcount, bitmap_index) ==
  { r \in [ ok : BOOLEAN, is_zero : BOOLEAN ] :
      r.is_zero => (r.ok /\ Run(bcount, bitmap_index) \subseteq arena.mem_zero) }

\* the history of arena `arena` after an allocation has handed out a range
Handed(arena, bcount, bitmap_index) ==
  IF arena.memid.initially_zero
  THEN [ arena EXCEPT !.ever_alloc = arena.ever_alloc \cup Run(bcount, bitmap_index) ]
  ELSE arena

\* arena.c:268-315: set the dirty bits, settle the commit state and return the
\* memory; the caller keeps it as a segment.  (These bitmap operations touch
\* only bits of blocks the thread holds in blocks_inuse.)
AllocCommit(t) ==
  /\ pc[t] = "a_commit"
  /\ LET l  == loc[t]
         d0 == DirtyClaim(mi_arenas[l.arena_index], l.bcount, l.bitmap_index)
         d  == [ d0 EXCEPT !.arena = Handed(d0.arena, l.bcount, l.bitmap_index) ]
         m1 == [ l.memid EXCEPT !.initially_zero = d.initially_zero ]
     IN  IF d.arena.memid.is_pinned
         THEN /\ mi_arenas' = SetArena(l.arena_index, d.arena)
              /\ segs' = Keep(t, [ m1 EXCEPT !.initially_committed = TRUE ], l.req.size)
         ELSE IF l.req.commit
         THEN LET c == _mi_bitmap_claim_across(d.arena.blocks_committed, l.bcount, l.bitmap_index)
                  a == [ d.arena EXCEPT !.blocks_committed = c.bitmap ]
                  \* the pages of the range after a successful _mi_os_commit
                  ac == [ a EXCEPT !.mem_committed =
                            a.mem_committed \cup (Run(l.bcount, l.bitmap_index) \cap 0..(a.block_count - 1)) ]
              IN  IF c.any_zero
                  THEN \E r \in OsCommitResults(a, l.bcount, l.bitmap_index) :
                         /\ mi_arenas' = SetArena(l.arena_index, IF r.ok THEN ac ELSE a)
                         /\ segs' = Keep(t, [ m1 EXCEPT
                                                !.initially_committed = r.ok,
                                                !.initially_zero = (r.is_zero \/ m1.initially_zero) ],
                                         l.req.size)
                  ELSE /\ mi_arenas' = SetArena(l.arena_index, a)
                       /\ segs' = Keep(t, [ m1 EXCEPT !.initially_committed = TRUE ], l.req.size)
         ELSE /\ mi_arenas' = SetArena(l.arena_index, d.arena)
              /\ segs' = Keep(t, [ m1 EXCEPT !.initially_committed =
                                     _mi_bitmap_is_claimed_across(d.arena.blocks_committed,
                                                                  l.bcount, l.bitmap_index) ],
                              l.req.size)
  /\ Return(t)
  /\ UNCHANGED << mi_arena_count, purge_guard, abandoned_count, now, opt, statics >>
\* arena.c:460-522: the size mi_arena_reserve asks the OS for (0: it gives up)
\* arena.c:460-535 without the test of the arena count
ReserveUncappedBug(req_size, req_arena_id, arena_count) ==
  IF opt.preloading THEN 0
  ELSE IF req_arena_id # _mi_arena_id_none THEN 0
  ELSE IF opt.arena_reserve = 0 THEN 0
  ELSE IF opt.arena_reserve < req_size THEN 0 ELSE _mi_align_up(opt.arena_reserve, MI_ARENA_BLOCK_SIZE)

mi_arena_reserve_size(req_size, req_arena_id, arena_count) ==
  IF opt.preloading THEN 0
  ELSE IF req_arena_id # _mi_arena_id_none THEN 0
  ELSE IF arena_count > (MI_MAX_ARENAS - 4) THEN 0
  ELSE IF opt.arena_reserve = 0 THEN 0
  ELSE LET r1 == IF ~opt.has_virtual_reserve THEN opt.arena_reserve \div 4 ELSE opt.arena_reserve
           r2 == _mi_align_up(r1, MI_ARENA_BLOCK_SIZE)
           r3 == IF arena_count >= 8 /\ arena_count <= 128
                 THEN (2 ^ (arena_count \div 8)) * r2 ELSE r2
       IN  IF r3 < req_size THEN 0 ELSE r3

\* arena.c:520-522
ArenaEagerCommit ==
  IF opt.arena_eager_commit = 2 THEN opt.has_overcommit
  ELSE opt.arena_eager_commit = 1

\* the memid _mi_os_alloc_aligned gives to memory it mapped
OsMemid(commit, is_large) ==
  [ _mi_memid_create("MI_MEM_OS") EXCEPT
      !.initially_zero = TRUE, !.initially_committed = (commit \/ is_large), !.is_pinned = is_large ]

\* arena.c:584-592 with 1369-1383: reserve a fresh arena (not exclusive, NUMA node
\* -1), register it and go on to allocate in it; the OS may refuse the memory and
\* may hand out large pages only if allowed.  The registration runs as one step.
AllocReserve(t) ==
  /\ pc[t] = "a_reserve"
  /\ LET l    == loc[t]
         size == _mi_align_up(mi_arena_reserve_size(l.req.size, l.req.req_arena_id, mi_arena_count),
                              MI_ARENA_BLOCK_SIZE)
     IN  IF l.req.req_arena_id # _mi_arena_id_none \/ size = 0
         THEN /\ Goto(t, "a_os", l)
              /\ UNCHANGED << mi_arenas, mi_arena_count >>
         ELSE \E os_ok \in BOOLEAN, is_large \in { FALSE, l.req.allow_large } :
                LET a == NewArena(size, is_large, -1, FALSE, OsMemid(ArenaEagerCommit, is_large))
                    r == ArenaAdded(mi_arenas, mi_arena_count, a)
                IN  IF os_ok /\ size >= MI_ARENA_BLOCK_SIZE /\ r.ok
                    THEN /\ mi_arenas' = r.arenas
                         /\ mi_arena_count' = r.count
                         /\ Goto(t, "a_try", [ l EXCEPT !.pass = 3, !.i = mi_arena_id_index(r.id) ])
                    ELSE /\ Goto(t, "a_os", l)
                         /\ UNCHANGED << mi_arenas, mi_arena_count >>
  /\ UNCHANGED << purge_guard, abandoned_count, now, opt, statics, segs >>

\* arena.c:602: may the request be served by the OS?
OsAllowedBug(req) == ~opt.disallow_os_alloc
OsAllowed(req) == ~(opt.disallow_os_alloc \/ req.req_arena_id # _mi_arena_id_none)

\* arena.c:601-623: no OS memory for a request that names an arena or when
\* disallow_os_alloc is set (NULL, errno = ENOMEM); else the OS serves it or fails
AllocOs(t) ==
  /\ pc[t] = "a_os"
  /\ LET l == loc[t]
     IN  IF ~OsAllowed(l.req)
         THEN UNCHANGED segs
         ELSE \E os_ok \in BOOLEAN :
                IF os_ok THEN segs' = Keep(t, OsMemid(l.req.commit, FALSE), l.req.size)
                ELSE UNCHANGED segs
  /\ Return(t)
  /\ UNCHANGED << mi_arenas, mi_arena_count, purge_guard, abandoned_count, now, opt, statics >>
\* ------------------------------------------------------------------ purge
\* what the OS purge answers and does in this run: needs_recommit (a decommit
\* that also protects the pages) or not (reset, plain MADV_DONTNEED); purged
\* pages read as zero afterwards or keep their content (MADV_FREE)
OsPurgeResults == { [ needs_recommit |-> opt.os_needs_recommit, zeroed |-> opt.os_purge_zeroes ] }

PurgeAlwaysDecommitsBug(arena, bitmap_idx, blocks, r) ==
  [ arena EXCEPT
      !.blocks_purge = _mi_bitmap_unclaim_across(arena.blocks_purge, blocks, bitmap_idx).bitmap,
      !.blocks_committed = _mi_bitmap_unclaim_across(arena.blocks_committed, blocks, bitmap_idx).bitmap ]

\* arena.c:673-719: mi_arena_purge with the OS answering `r`
mi_arena_purge(arena, bitmap_idx, blocks, r) ==
  [ arena EXCEPT
      !.blocks_purge = _mi_bitmap_unclaim_across(arena.blocks_purge, blocks, bitmap_idx).bitmap,
      !.blocks_committed =
          IF r.needs_recommit
          THEN _mi_bitmap_unclaim_across(arena.blocks_committed, blocks, bitmap_idx).bitmap
          ELSE arena.blocks_committed,
      !.mem_zero = IF r.zeroed THEN arena.mem_zero \cup (Run(blocks, bitmap_idx) \cap 0..(arena.block_count - 1))
                   ELSE arena.mem_zero,
      !.mem_committed = IF r.needs_recommit THEN arena.mem_committed \ Run(blocks, bitmap_idx)
                        ELSE arena.mem_committed ]

\* ------------------------------------------------------------------- free
MySegs(t) == { s \in SegIds : segs[s].memid.memkind # "MI_MEM_NONE" /\ segs[s].thread_id = t }

\* the locals of mi_arenas_try_purge and of the mi_arena_try_purge it calls
SweepLocals(force, visit_all) ==
  [ op |-> "sweep", force |-> force, visit_all |-> visit_all,
    max_arena |-> 0, now |-> 0, max_purge_count |-> 0, i |-> 0,
    expire |-> 0, any_purged |-> FALSE, full_purge |-> TRUE,
    fi |-> 0, purge |-> {}, bitidx |-> 0, bitlen |-> 0,
    rb |-> 0, count |-> 0, all_purged |-> FALSE, prange |-> {} ]

\* arena.c:1018-1026: a partially committed range is marked uncommitted as a whole
FreeKeepsCommittedBug(arena, blocks, bitmap_idx, all_committed) == arena
FreeClearsFirstBlockBug(arena, blocks, bitmap_idx, all_committed) ==
  IF all_committed THEN arena
  ELSE [ arena EXCEPT !.blocks_committed =
           _mi_bitmap_unclaim_across(arena.blocks_committed, 1, bitmap_idx).bitmap ]
FreeDecommit(arena, blocks, bitmap_idx, all_committed) ==
  IF all_committed THEN arena
  ELSE [ arena EXCEPT !.blocks_committed =
           _mi_bitmap_unclaim_across(arena.blocks_committed, blocks, bitmap_idx).bitmap ]

\* purge_expire stays bounded: a free begins only while the arena has no
\* deadline or one that has passed (so each free in flight extends a deadline
\* at most once beyond the clock)
ExpireRoom(memid) ==
  (memid.memkind = "MI_MEM_ARENA" /\ mi_arenas[mi_arena_id_index(memid.id)] # NULL) =>
     mi_arenas[mi_arena_id_index(memid.id)].purge_expire <= now

\* arena.c:1011: the arena has no committed and no purge bitmap
PinnedIgnoredBug(arena) == FALSE
NoPurgeBitmaps(arena) == arena.memid.is_pinned

\* arena.c:949-1033 and 749-757: _mi_arena_free up to the purge decision, called
\* with `memid`; `owned` says that the caller owns the memory (it may have
\* written anywhere in it).  OS memory goes back to the OS.  For arena memory
\* the arena is looked up (arena.c:985: an index beyond the registry array is
\* read all the same), a missing arena or a block index beyond the fields is
\* diagnosed and ignored, the committed bits are settled and the kind of purge
\* is chosen: none (pinned, or delay < 0), at once (delay = 0 or preloading),
\* or scheduled (arena.c:760: purge_expire is loaded).
ArenaFree(t, memid, size, committed_size, owned) ==
  LET all_committed == (committed_size = size)
  IN  IF mi_memkind_is_os(memid.memkind)
      THEN /\ Goto(t, "s_enter", SweepLocals(FALSE, FALSE))
           /\ UNCHANGED mi_arenas
      ELSE IF mi_arena_id_index(memid.id) >= MI_MAX_ARENAS
      THEN /\ Goto(t, "f_oob", [ op |-> "free", arena_idx |-> mi_arena_id_index(memid.id),
                                  bitmap_idx |-> memid.block_index,
                                  blocks |-> mi_block_count_of_size(size) ])
           /\ UNCHANGED mi_arenas
      ELSE LET arena_idx  == mi_arena_id_index(memid.id)
               bitmap_idx == memid.block_index
               arena      == mi_arenas[arena_idx]
               blocks     == mi_block_count_of_size(size)
               l          == [ op |-> "free", arena_idx |-> arena_idx, bitmap_idx |-> bitmap_idx,
                               blocks |-> blocks ]
               \* the owner has written to the memory, and it reports the range
               \* fully committed only if it is (it has committed what it was
               \* handed uncommitted); otherwise pages of the range are
               \* decommitted, unless the memory is pinned
               written    == IF owned
                             THEN [ arena EXCEPT
                                      !.mem_zero = arena.mem_zero \ Run(blocks, bitmap_idx),
                                      !.mem_committed =
                                         IF all_committed
                                         THEN arena.mem_committed
                                                \cup (Run(blocks, bitmap_idx) \cap 0..(arena.block_count - 1))
                                         ELSE IF arena.memid.is_pinned THEN arena.mem_committed
                                         ELSE arena.mem_committed \ Run(blocks, bitmap_idx) ]
                             ELSE arena
           IN  IF arena = NULL \/ arena.field_count <= mi_bitmap_index_field(bitmap_idx)
               THEN Return(t) /\ UNCHANGED mi_arenas
               ELSE IF NoPurgeBitmaps(arena)
               THEN /\ mi_arenas' = SetArena(arena_idx, written)
                    /\ Goto(t, "f_unclaim", l)
               ELSE /\ mi_arenas' = SetArena(arena_idx,
                                      FreeDecommit(written, blocks, bitmap_idx, all_committed))
                    /\ IF mi_arena_purge_delay < 0 THEN Goto(t, "f_unclaim", l)
                       ELSE IF opt.preloading \/ mi_arena_purge_delay = 0
                       THEN Goto(t, "f_purge_now", l)
                       ELSE Goto(t, "f_sched_store",
                                 [ op |-> "free", arena_idx |-> arena_idx, bitmap_idx |-> bitmap_idx,
                                   blocks |-> blocks, expire |-> arena.purge_expire ])

\* _mi_arena_free called by a thread with a segment it owns
FreeEnter(t, s, committed_size) ==
  /\ pc[t] = "idle"
  /\ s \in MySegs(t)
  /\ ExpireRoom(segs[s].memid)
  /\ segs' = [ segs EXCEPT ![s] = NoSeg ]
  /\ ArenaFree(t, segs[s].memid, segs[s].size, committed_size, TRUE)
  /\ UNCHANGED << mi_arena_count, purge_guard, abandoned_count, now, opt, statics >>

\* arena.c:754-757: purge at once (the thread still holds the blocks_inuse bits)
FreePurgeNow(t) ==
  /\ pc[t] = "f_purge_now"
  /\ LET l == loc[t]
     IN  /\ \E r \in OsPurgeResults :
              mi_arenas' = SetArena(l.arena_idx,
                             mi_arena_purge(mi_arenas[l.arena_idx], l.bitmap_idx, l.blocks, r))
         /\ Goto(t, "f_unclaim", [ l EXCEPT !.op = "free_purged" ])
  /\ UNCHANGED << mi_arena_count, purge_guard, abandoned_count, now, opt, statics, segs >>

\* arena.c:761-766: extend a deadline that was set, or set one
ScheduledNowBug(arena, expire) == now
ScheduledExpire(arena, expire) ==
  IF expire # 0 THEN arena.purge_expire + (mi_arena_purge_delay \div 10)
  ELSE now + mi_arena_purge_delay

FreeSchedStore(t) ==
  /\ pc[t] = "f_sched_store"
  /\ LET l     == loc[t]
         arena == mi_arenas[l.arena_idx]
     IN  /\ mi_arenas' = SetArena(l.arena_idx,
                           [ arena EXCEPT !.purge_expire = ScheduledExpire(arena, l.expire) ])
         /\ Goto(t, "f_sched_claim", [ op |-> "free", arena_idx |-> l.arena_idx,
                                       bitmap_idx |-> l.bitmap_idx, blocks |-> l.blocks ])
  /\ UNCHANGED << mi_arena_count, purge_guard, abandoned_count, now, opt, statics, segs >>

\* arena.c:767: mark the blocks in blocks_purge
FreeSchedClaim(t) ==
  /\ pc[t] = "f_sched_claim"
  /\ LET l     == loc[t]
         arena == mi_arenas[l.arena_idx]
     IN  /\ mi_arenas' = SetArena(l.arena_idx,
                           [ arena EXCEPT !.blocks_purge =
                               _mi_bitmap_claim_across(arena.blocks_purge, l.blocks, l.bitmap_idx).bitmap,
                                          !.mark_time = now ])
         /\ Goto(t, "f_unclaim", l)
  /\ UNCHANGED << mi_arena_count, purge_guard, abandoned_count, now, opt, statics, segs >>

\* arena.c:1039: the bits _mi_arena_free clears in blocks_inuse
FreedBitsBug(blocks, bitmap_idx) == Run(blocks + 1, bitmap_idx)
FreedBits(blocks, bitmap_idx) == Run(blocks, bitmap_idx)

\* arena.c:1038-1054: make the blocks available again; a double free ends the
\* call, otherwise expired purges are swept (not forced, one arena)
FreeUnclaim(t) ==
  /\ pc[t] = "f_unclaim"
  /\ LET l     == loc[t]
         arena == mi_arenas[l.arena_idx]
         freed == FreedBits(l.blocks, l.bitmap_idx)
     IN  /\ mi_arenas' = SetArena(l.arena_idx, [ arena EXCEPT !.blocks_inuse = arena.blocks_inuse \ freed ])
         /\ IF ~(freed \subseteq arena.blocks_inuse)
            THEN Return(t)
            ELSE Goto(t, "s_enter", SweepLocals(FALSE, FALSE))
  /\ UNCHANGED << mi_arena_count, purge_guard, abandoned_count, now, opt, statics, segs >>

\* does `memid` (with `size`) lie clear of every segment the callers hold?
NotHeld(memid, size) ==
  \A s \in SegIds :
    (segs[s].memid.memkind = "MI_MEM_ARENA" /\ segs[s].memid.id = memid.id) =>
       Run(mi_block_count_of_size(size), memid.block_index)
         \cap Run(mi_block_count_of_size(segs[s].size), segs[s].memid.block_index) = {}

\* _mi_arena_free called with an arena memid that denotes no memory the callers
\* hold: the memid of blocks that were handed out and freed before, or one
\* that names no arena of the registry or no block of the arena (purge_expire
\* is kept bounded: the call begins while the deadline is at most one delay
\* ahead)
FreeAgain(t, memid, size, committed_size) ==
  /\ pc[t] = "idle"
  /\ memid.memkind = "MI_MEM_ARENA"
  /\ NotHeld(memid, size)
  /\ LET i == mi_arena_id_index(memid.id)
     IN  (i < MI_MAX_ARENAS /\ mi_arenas[i] # NULL) =>
            /\ mi_arenas[i].purge_expire <= now + mi_arena_purge_delay
            /\ mi_arenas[i].field_count > mi_bitmap_index_field(memid.block_index) =>
                 Run(mi_block_count_of_size(size), memid.block_index) \subseteq mi_arenas[i].ever_alloc
  /\ ArenaFree(t, memid, size, committed_size, FALSE)
  /\ UNCHANGED << mi_arena_count, purge_guard, abandoned_count, now, opt, statics, segs >>

\* arena.c:985-990: mi_arenas[arena_idx] was read with arena_idx beyond the
\* array (the assertion of arena.c:984 is compiled out of a release build).  The
\* value is whatever lies behind the array: if it is NULL the free is diagnosed
\* and ignored; otherwise it is used as an arena and the call goes astray.
FreeOob(t) ==
  /\ pc[t] = "f_oob"
  /\ \E is_null \in BOOLEAN :
       IF is_null THEN Return(t) ELSE Goto(t, "f_wild", loc[t])
  /\ UNCHANGED << mi_arenas, mi_arena_count, purge_guard, abandoned_count, now, opt, statics, segs >>
\* ------------------------------------------------------------------ sweep
\* arena.c:1100-1103: _mi_arenas_collect(force_purge)
Collect(t, force_purge) ==
  /\ pc[t] = "idle"
  /\ Goto(t, "s_enter", SweepLocals(force_purge, force_purge))
  /\ UNCHANGED << mi_arenas, mi_arena_count, purge_guard, abandoned_count, now, opt, statics, segs >>

\* arena.c:913-914: mi_atomic_guard enters its block only if the compare-and-swap
\* of the guard from 0 to 1 succeeds (it does not retry)
GuardIgnoredBug(guard) == TRUE
mi_atomic_guard(guard) == guard = 0

\* arena.c:897-921: nothing to do while preloading or without a delay; only one
\* thread sweeps at a time, a thread that finds the guard taken returns
SweepEnter(t) ==
  /\ pc[t] = "s_enter"
  /\ LET l == loc[t]
         max_arena == mi_arena_count
     IN  IF opt.preloading \/ mi_arena_purge_delay <= 0 \/ max_arena = 0 \/ ~mi_atomic_guard(purge_guard)
         THEN Return(t) /\ UNCHANGED purge_guard
         ELSE /\ purge_guard' = 1
              /\ Goto(t, "s_arena", [ l EXCEPT !.max_arena = max_arena, !.now = now, !.i = 0,
                                               !.max_purge_count = IF l.visit_all THEN max_arena ELSE 1 ])
  /\ UNCHANGED << mi_arenas, mi_arena_count, abandoned_count, now, opt, statics, segs >>

DeadlineIgnoredBug(arena, now_, force) ==
  /\ arena # NULL
  /\ ~arena.memid.is_pinned
  /\ arena.purge_expire # 0

\* arena.c:813-823: is arena `arena` swept now?  its purge_expire is loaded
SweepsArena(arena, now_, force) ==
  /\ arena # NULL
  /\ ~arena.memid.is_pinned
  /\ arena.purge_expire # 0
  /\ (force \/ arena.purge_expire <= now_)

\* arena.c:922-941 and 813-823: the next arena of the walk; after the last one
\* the thread leaves the guarded block
SweepArena(t) ==
  /\ pc[t] = "s_arena"
  /\ LET l == loc[t]
     IN  IF l.i >= l.max_arena THEN Return(t) /\ purge_guard' = 0
         ELSE IF SweepsArena(mi_arenas[l.i], l.now, l.force)
         THEN Goto(t, "s_cas", [ l EXCEPT !.expire = mi_arenas[l.i].purge_expire ])
                /\ UNCHANGED purge_guard
         ELSE Goto(t, "s_arena", [ l EXCEPT !.i = l.i + 1 ]) /\ UNCHANGED purge_guard
  /\ UNCHANGED << mi_arenas, mi_arena_count, abandoned_count, now, opt, statics, segs >>

\* arena.c:829: the compare-and-swap of purge_expire from `expected` to 0
CasExpireBug(arena, expected) == [ arena EXCEPT !.purge_expire = 0 ]
CasExpire(arena, expected) ==
  IF arena.purge_expire = expected THEN [ arena EXCEPT !.purge_expire = 0 ] ELSE arena

\* arena.c:829: reset purge_expire unless it changed; the sweep goes on either way
SweepCas(t) ==
  /\ pc[t] = "s_cas"
  /\ LET l     == loc[t]
         arena == mi_arenas[l.i]
     IN  /\ mi_arenas' = SetArena(l.i, CasExpire(arena, l.expire))
         /\ Goto(t, "s_field", [ l EXCEPT !.expire = 0, !.any_purged = FALSE, !.full_purge = TRUE,
                                          !.fi = 0 ])
  /\ UNCHANGED << mi_arena_count, purge_guard, abandoned_count, now, opt, statics, segs >>

\* the length of the run of set bits of `purge` that starts at bit `b` and ends before `lim`
RunLen(purge, b, lim) ==
  Cardinality({ n \in 1..(lim - b) : \A k \in 0..(n - 1) : (b + k) \in purge })

\* arena.c:846-851,879: from bit `from` on, go to the next run of the purge mask
\* (bits that are clear are stepped over one by one), or to the next field
NextRun(t, l, from) ==
  LET starts == { b \in from..(MI_BITMAP_FIELD_BITS - 1) : b \in l.purge }
  IN  IF starts = {}
      THEN Goto(t, "s_field", [ l EXCEPT !.fi = l.fi + 1, !.purge = {}, !.bitidx = 0, !.bitlen = 0 ])
      ELSE Goto(t, "s_claim", [ l EXCEPT !.bitidx = SetMin(starts),
                                         !.bitlen = RunLen(l.purge, SetMin(starts), MI_BITMAP_FIELD_BITS) ])

\* arena.c:838-845: load the next field of blocks_purge
SweepField(t) ==
  /\ pc[t] = "s_field"
  /\ LET l     == loc[t]
         arena == mi_arenas[l.i]
     IN  IF l.fi >= arena.field_count THEN Goto(t, "s_resched", l)
         ELSE NextRun(t, [ l EXCEPT !.purge = FieldOf(arena.blocks_purge, l.fi) ], 0)
  /\ UNCHANGED << mi_arenas, mi_arena_count, purge_guard, abandoned_count, now, opt, statics, segs >>

\* arena.c:782-804: from bit `from` on, go to the next run of purge_range inside
\* the claimed bits, or end purge_range (arena.c:872-875)
NextPurge(t, l, from, all_purged) ==
  LET endidx == l.bitidx + l.bitlen
      starts == { b \in from..(endidx - 1) : b \in l.purge }
  IN  IF starts = {}
      THEN Goto(t, "s_release", [ l EXCEPT !.rb = 0, !.count = 0, !.all_purged = FALSE,
                                           !.any_purged = TRUE,
                                           !.full_purge = (l.full_purge /\ all_purged) ])
      ELSE Goto(t, "s_range", [ l EXCEPT !.rb = SetMin(starts),
                                         !.count = RunLen(l.purge, SetMin(starts), endidx),
                                         !.all_purged = all_purged ])

\* arena.c:857: the sweep claims the blocks_inuse bits of a run only if all are clear
SweepClaimBug(arena, l) ==
  [ ok |-> TRUE, bitmap |-> arena.blocks_inuse \cup Run(l.bitlen, mi_bitmap_index_create(l.fi, l.bitidx)) ]
SweepClaim(arena, l) ==
  _mi_bitmap_try_claim(arena.blocks_inuse, l.bitlen, mi_bitmap_index_create(l.fi, l.bitidx))

\* arena.c:855-862,870-872: try to claim the blocks_inuse bits of the run, one bit
\* less after each failure; with the bits held the purge field is read again
\* (only its bits of the held blocks are used)
SweepTryClaim(t) ==
  /\ pc[t] = "s_claim"
  /\ LET l     == loc[t]
         arena == mi_arenas[l.i]
         c     == SweepClaim(arena, l)
     IN  IF c.ok
         THEN /\ mi_arenas' = SetArena(l.i, [ arena EXCEPT !.blocks_inuse = c.bitmap ])
              /\ NextPurge(t, [ l EXCEPT !.purge = FieldOf(arena.blocks_purge, l.fi), !.prange = {} ],
                           l.bitidx, FALSE)
         ELSE /\ UNCHANGED mi_arenas
              /\ IF l.bitlen > 1 THEN Goto(t, "s_claim", [ l EXCEPT !.bitlen = l.bitlen - 1 ])
                 ELSE NextRun(t, [ l EXCEPT !.bitlen = 0 ], l.bitidx + 1)
  /\ UNCHANGED << mi_arena_count, purge_guard, abandoned_count, now, opt, statics, segs >>

\* arena.c:792-803: purge one run of the claimed bits (mi_arena_purge)
SweepPurgeRange(t) ==
  /\ pc[t] = "s_range"
  /\ LET l   == loc[t]
         idx == mi_bitmap_index_create(l.fi, l.rb)
     IN  /\ \E r \in OsPurgeResults :
              mi_arenas' = SetArena(l.i, mi_arena_purge(mi_arenas[l.i], idx, l.count, r))
         /\ NextPurge(t, [ l EXCEPT !.prange = Run(l.count, idx) ], l.rb + l.count + 1,
                      l.all_purged \/ l.count = l.bitlen)
  /\ UNCHANGED << mi_arena_count, purge_guard, abandoned_count, now, opt, statics, segs >>

\* arena.c:877: the blocks_inuse bits the sweep gives back
SweptBitsBug(l) == Run(RunLen(l.purge \cup Run(l.bitlen + 1, l.bitidx), l.bitidx, MI_BITMAP_FIELD_BITS),
                       mi_bitmap_index_create(l.fi, l.bitidx))
SweptBits(l) == Run(l.bitlen, mi_bitmap_index_create(l.fi, l.bitidx))

\* arena.c:876-879: release the claimed blocks_inuse bits and go on after the run
SweepRelease(t) ==
  /\ pc[t] = "s_release"
  /\ LET l     == loc[t]
         arena == mi_arenas[l.i]
     IN  /\ mi_arenas' = SetArena(l.i, [ arena EXCEPT !.blocks_inuse = arena.blocks_inuse \ SweptBits(l) ])
         /\ NextRun(t, [ l EXCEPT !.prange = {} ], l.bitidx + l.bitlen + 1)
  /\ UNCHANGED << mi_arena_count, purge_guard, abandoned_count, now, opt, statics, segs >>

\* arena.c:886-892 and 935-938: if not all was purged set a new deadline (unless
\* one is set); then the walk goes on, or ends after the arenas it may purge
SweepResched(t) ==
  /\ pc[t] = "s_resched"
  /\ LET l     == loc[t]
         arena == mi_arenas[l.i]
         l1    == [ l EXCEPT !.any_purged = FALSE, !.full_purge = TRUE, !.fi = 0 ]
     IN  /\ mi_arenas' = IF ~l.full_purge /\ arena.purge_expire = 0
                         THEN SetArena(l.i, [ arena EXCEPT !.purge_expire = now + mi_arena_purge_delay ])
                         ELSE mi_arenas
         /\ IF l.any_purged /\ l.max_purge_count <= 1
            THEN Goto(t, "s_arena", [ l1 EXCEPT !.i = l.max_arena ])
            ELSE IF l.any_purged
            THEN Goto(t, "s_arena", [ l1 EXCEPT !.i = l.i + 1, !.max_purge_count = l.max_purge_count - 1 ])
            ELSE Goto(t, "s_arena", [ l1 EXCEPT !.i = l.i + 1 ])
  /\ UNCHANGED << mi_arena_count, purge_guard, abandoned_count, now, opt, statics, segs >>

\* the clock advances
Tick ==
  /\ now + TickMs <= MaxTime
  /\ now' = now + TickMs
  /\ UNCHANGED << mi_arenas, mi_arena_count, purge_guard, abandoned_count, opt, statics, segs, pc, loc >>

\* ------------------------------------------------------ abandoned segments
\* abandoned_count is a size_t: it wraps around
AddCount(count, d) == (count + d) % (2 ^ SizeBits)

\* bitmap.c: claim and unclaim of bits inside one field
_mi_bitmap_claim(bitmap, count, bitmap_idx) == _mi_bitmap_claim_across(bitmap, count, bitmap_idx)
UnclaimAlwaysSetBug(bitmap, count, bitmap_idx) ==
  [ _mi_bitmap_unclaim_across(bitmap, count, bitmap_idx) EXCEPT !.all_one = TRUE ]
_mi_bitmap_unclaim(bitmap, count, bitmap_idx) == _mi_bitmap_unclaim_across(bitmap, count, bitmap_idx)

\* the segments that have no owner and may be reclaimed
AbandonedSegs == { s \in SegIds : segs[s].memid.memkind # "MI_MEM_NONE" /\ segs[s].thread_id = NoThread }

\* arena.c:1206-1215: _mi_arena_segment_mark_abandoned by the owner of segment `s`:
\* the thread_id is cleared first
MarkEnter(t, s) ==
  /\ pc[t] = "idle"
  /\ s \in MySegs(t)
  /\ segs' = [ segs EXCEPT ![s].thread_id = NoThread ]
  /\ IF segs[s].memid.memkind # "MI_MEM_ARENA"
     THEN Goto(t, "ab_inc", [ op |-> "mark", seg |-> s ])
     ELSE Goto(t, "ab_claim", [ op |-> "mark", seg |-> s ])
  /\ UNCHANGED << mi_arenas, mi_arena_count, purge_guard, abandoned_count, now, opt, statics >>

\* arena.c:1216-1221: set the bit of the first block of the segment in blocks_abandoned
MarkClaim(t) ==
  /\ pc[t] = "ab_claim"
  /\ LET memid == segs[loc[t].seg].memid
         i     == mi_arena_id_index(memid.id)
         c     == _mi_bitmap_claim(mi_arenas[i].blocks_abandoned, 1, memid.block_index)
     IN  /\ mi_arenas' = SetArena(i, [ mi_arenas[i] EXCEPT !.blocks_abandoned = c.bitmap ])
         /\ IF c.all_zero THEN Goto(t, "ab_inc", loc[t]) ELSE Return(t)
  /\ UNCHANGED << mi_arena_count, purge_guard, abandoned_count, now, opt, statics, segs >>

\* arena.c:1212,1222: count the segment
MarkCount(t) ==
  /\ pc[t] = "ab_inc"
  /\ abandoned_count' = AddCount(abandoned_count, 1)
  /\ Return(t)
  /\ UNCHANGED << mi_arenas, mi_arena_count, purge_guard, now, opt, statics, segs >>

\* arena.c:1190: the abandoned bit of a segment is cleared by the thread that reclaims it
AbandonedUnclaimBug(arena, bitmap_idx) ==
  [ bitmap |-> arena.blocks_abandoned, all_one |-> bitmap_idx \in arena.blocks_abandoned ]
AbandonedAlwaysWonBug(arena, bitmap_idx) ==
  [ _mi_bitmap_unclaim(arena.blocks_abandoned, 1, bitmap_idx) EXCEPT !.all_one = TRUE ]
AbandonedUnclaim(arena, bitmap_idx) == _mi_bitmap_unclaim(arena.blocks_abandoned, 1, bitmap_idx)

\* arena.c:1162-1190: _mi_arena_segment_clear_abandoned on a segment the caller
\* found without owner: a segment outside the arenas is taken with a CAS on its
\* thread_id, one inside by clearing its bit in blocks_abandoned
ClearAbandoned(t, s) ==
  /\ pc[t] = "idle"
  /\ s \in AbandonedSegs
  /\ IF segs[s].memid.memkind # "MI_MEM_ARENA"
     THEN /\ segs' = [ segs EXCEPT ![s].thread_id = t ]
          /\ Goto(t, "cl_dec", [ op |-> "clear", seg |-> 0 ])
          /\ UNCHANGED mi_arenas
     ELSE LET i == mi_arena_id_index(segs[s].memid.id)
              u == AbandonedUnclaim(mi_arenas[i], segs[s].memid.block_index)
          IN  /\ mi_arenas' = SetArena(i, [ mi_arenas[i] EXCEPT !.blocks_abandoned = u.bitmap ])
              /\ IF u.all_one THEN Goto(t, "cl_dec", [ op |-> "clear", seg |-> s ]) ELSE Return(t)
              /\ UNCHANGED segs
  /\ UNCHANGED << mi_arena_count, purge_guard, abandoned_count, now, opt, statics >>

\* arena.c:1174 and 1195-1196: count the segment out; a segment inside an arena
\* gets its new owner
ClearCount(t) ==
  /\ pc[t] = "cl_dec"
  /\ abandoned_count' = AddCount(abandoned_count, -1)
  /\ segs' = IF loc[t].seg # 0 THEN [ segs EXCEPT ![loc[t].seg].thread_id = t ] ELSE segs
  /\ Return(t)
  /\ UNCHANGED << mi_arenas, mi_arena_count, purge_guard, now, opt, statics >>

\* arena.c:1228-1246: _mi_arena_segment_clear_abandoned_next with a cursor that
\* _mi_arena_field_cursor_init has set up (start is random, count = 0,
\* bitmap_idx = 0, so the scan begins at bit 1 of field 0)
ClearNextEnter(t) ==
  /\ pc[t] = "idle"
  /\ LET max_arena == mi_arena_count
     IN  IF max_arena <= 0 \/ abandoned_count = 0 THEN Return(t)
         ELSE \E start \in 0..(max_arena - 1) :
                Goto(t, "cn_field", [ op |-> "clear_next", start |-> start, count |-> 0,
                                      max_arena |-> max_arena, field_idx |-> mi_bitmap_index_field(0),
                                      bit_idx |-> mi_bitmap_index_bit_in_field(0) + 1, field |-> {} ])
  /\ UNCHANGED << mi_arenas, mi_arena_count, purge_guard, abandoned_count, now, opt, statics, segs >>

\* arena.c:1247-1250
CursorArena(l) ==
  IF l.start + l.count >= l.max_arena THEN (l.start + l.count) % l.max_arena ELSE l.start + l.count

\* arena.c:1246-1256: go to the next field of the scan and load it
ClearNextField(t) ==
  /\ pc[t] = "cn_field"
  /\ LET l     == loc[t]
         arena == mi_arenas[CursorArena(l)]
     IN  IF l.count >= l.max_arena THEN Return(t)
         ELSE IF arena = NULL \/ l.field_idx >= arena.field_count
         THEN Goto(t, "cn_field", [ l EXCEPT !.count = l.count + 1, !.field_idx = 0, !.bit_idx = 0 ])
         ELSE IF FieldOf(arena.blocks_abandoned, l.field_idx) = {}
         THEN Goto(t, "cn_field", [ l EXCEPT !.field_idx = l.field_idx + 1, !.bit_idx = 0 ])
         ELSE Goto(t, "cn_bit", [ l EXCEPT !.field = FieldOf(arena.blocks_abandoned, l.field_idx) ])
  /\ UNCHANGED << mi_arenas, mi_arena_count, purge_guard, abandoned_count, now, opt, statics, segs >>

\* arena.c:1257-1262: try to clear the next bit that was set in the loaded field
ClearNextBit(t) ==
  /\ pc[t] = "cn_bit"
  /\ LET l     == loc[t]
         i     == CursorArena(l)
         arena == mi_arenas[i]
         bits  == { b \in l.bit_idx..(MI_BITMAP_FIELD_BITS - 1) : b \in l.field }
     IN  IF bits = {}
         THEN /\ Goto(t, "cn_field", [ l EXCEPT !.field_idx = l.field_idx + 1, !.bit_idx = 0, !.field = {} ])
              /\ UNCHANGED mi_arenas
         ELSE LET bitmap_idx == mi_bitmap_index_create(l.field_idx, SetMin(bits))
                  u == _mi_bitmap_unclaim(arena.blocks_abandoned, 1, bitmap_idx)
              IN  /\ mi_arenas' = SetArena(i, [ arena EXCEPT !.blocks_abandoned = u.bitmap ])
                  /\ IF u.all_one
                     THEN Goto(t, "cn_dec", [ op |-> "clear_next", arena_idx |-> i, bitmap_idx |-> bitmap_idx ])
                     ELSE Goto(t, "cn_bit", [ l EXCEPT !.bit_idx = SetMin(bits) + 1 ])
  /\ UNCHANGED << mi_arena_count, purge_guard, abandoned_count, now, opt, statics, segs >>

\* the segment that starts at block `bitmap_idx` of arena `i`
SegsAt(i, bitmap_idx) ==
  { s \in SegIds : /\ segs[s].memid.memkind = "MI_MEM_ARENA"
                   /\ mi_arena_id_index(segs[s].memid.id) = i
                   /\ segs[s].memid.block_index = bitmap_idx }

\* arena.c:1263-1270: count the segment out and return it; the caller becomes its owner
ClearNextCount(t) ==
  /\ pc[t] = "cn_dec"
  /\ abandoned_count' = AddCount(abandoned_count, -1)
  /\ segs' = [ s \in SegIds |->
                IF s \in SegsAt(loc[t].arena_idx, loc[t].bitmap_idx) /\ segs[s].thread_id = NoThread
                THEN [ segs[s] EXCEPT !.thread_id = t ] ELSE segs[s] ]
  /\ Return(t)
  /\ UNCHANGED << mi_arenas, mi_arena_count, purge_guard, now, opt, statics >>

\* ------------------------------------------------------------ the system
\* the requests of the threads that share the arena: one or two blocks
Sizes == { MI_ARENA_BLOCK_SIZE, MI_ARENA_BLOCK_SIZE + 1 }
Requests ==
  { Request(size, MI_SEGMENT_ALIGN, 0, TRUE, FALSE, _mi_arena_id_none, -1) : size \in Sizes }

\* the steps inside the calls
Steps ==
  \/ \E t \in Threads : AllocTry(t)
  \/ \E t \in Threads : AllocReserve(t)
  \/ \E t \in Threads : AllocOs(t)
  \/ \E t \in Threads : AllocUnclaimPurge(t)
  \/ \E t \in Threads : AllocCommit(t)
  \/ \E t \in Threads : FreePurgeNow(t)
  \/ \E t \in Threads : FreeSchedStore(t)
  \/ \E t \in Threads : FreeSchedClaim(t)
  \/ \E t \in Threads : FreeUnclaim(t)
  \/ \E t \in Threads : SweepEnter(t)
  \/ \E t \in Threads : SweepArena(t)
  \/ \E t \in Threads : SweepCas(t)
  \/ \E t \in Threads : SweepField(t)
  \/ \E t \in Threads : SweepTryClaim(t)
  \/ \E t \in Threads : SweepPurgeRange(t)
  \/ \E t \in Threads : SweepRelease(t)
  \/ \E t \in Threads : SweepResched(t)

\* Spec: the threads allocate, free (the segments freed are fully committed) and
\* collect concurrently while the clock advances
Next ==
  \/ \E t \in Threads, req \in Requests : AllocEnter(t, req)
  \/ \E t \in Threads, s \in SegIds : FreeEnter(t, s, segs[s].size)
  \/ \E t \in Threads, force \in BOOLEAN : Collect(t, force)
  \/ Steps
  \/ Tick

Spec == Init /\ [][Next]_vars

\* ------------------------------------------------- SpecZero: zero tracking
\* The runs of SpecZero: one thread works on an arena over memory that is zero or
\* not and committed or not; the OS purge decommits (and then zeroes) or resets
\* (and zeroes or not); requests ask for committed memory or not and segments are
\* freed fully committed or not.
OsPurgeKinds ==
  { k \in [ os_needs_recommit : BOOLEAN, os_purge_zeroes : BOOLEAN ] :
      k.os_needs_recommit => k.os_purge_zeroes }

InitZero ==
  \E is_committed \in BOOLEAN, is_zero \in BOOLEAN, d \in PurgeDelays, k \in OsPurgeKinds :
    /\ Start(is_committed, is_zero,
             [ Options(d, 0, FALSE) EXCEPT !.os_needs_recommit = k.os_needs_recommit,
                                           !.os_purge_zeroes = k.os_purge_zeroes ])

ZeroRequests ==
  { Request(size, MI_SEGMENT_ALIGN, 0, commit, FALSE, _mi_arena_id_none, -1) :
      size \in Sizes, commit \in BOOLEAN }

NextZero ==
  \/ \E req \in ZeroRequests : AllocEnter(1, req)
  \/ \E s \in SegIds : \E c \in { 0, segs[s].size } : FreeEnter(1, s, c)
  \/ Collect(1, TRUE)
  \/ Steps

SpecZero == InitZero /\ [][NextZero]_vars
\* ------------------------------------------- SpecSelect: choice of the arena
\* arena.c:1307-1366: mi_manage_os_memory_ex adds an arena over external memory
\* of one bitmap field, exclusive or not, on a NUMA node or on none (run by one
\* thread without interference)
ManageOsMemory(t, exclusive, numa_node) ==
  /\ pc[t] = "idle"
  /\ mi_arena_count < MaxManaged
  /\ LET a == NewArena(mi_arena_block_size(MI_BITMAP_FIELD_BITS), FALSE, numa_node, exclusive,
                       ExternalMemid(TRUE, FALSE, FALSE))
         r == ArenaAdded(mi_arenas, mi_arena_count, a)
     IN  /\ mi_arenas' = r.arenas
         /\ mi_arena_count' = r.count
  /\ UNCHANGED << purge_guard, abandoned_count, now, opt, statics, segs, pc, loc >>

\* The runs of SpecSelect: one thread fills the registry, allocates and frees;
\* arenas are reserved on demand or not; nothing is purged.
InitSelect ==
  /\ mi_arenas = EmptyRegistry
  /\ mi_arena_count = 0
  /\ \E reserve \in { 0, mi_arena_block_size(MI_BITMAP_FIELD_BITS) } : opt = Options(-1, reserve, FALSE)
  /\ purge_guard = 0
  /\ abandoned_count = 0
  /\ now = 0
  /\ StaticsInit
  /\ segs = [ s \in SegIds |-> NoSeg ]
  /\ pc = [ t \in Threads |-> "idle" ]
  /\ loc = [ t \in Threads |-> Idle ]

NumaNodes == { -1, 0, 1 }

\* the requests name no arena (0), an arena of the registry or one that may not exist
SelectRequests ==
  { Request(mi_arena_block_size(n), MI_SEGMENT_ALIGN, 0, TRUE, FALSE, req_arena_id, numa_node) :
      n \in 1..MI_BITMAP_FIELD_BITS, req_arena_id \in 0..(MaxManaged + 1), numa_node \in NumaNodes }

NextSelect ==
  \/ \E exclusive \in BOOLEAN, numa_node \in NumaNodes : ManageOsMemory(1, exclusive, numa_node)
  \/ \E req \in SelectRequests : AllocEnter(1, req)
  \/ AllocTry(1)
  \/ AllocReserve(1)
  \/ AllocOs(1)
  \/ AllocUnclaimPurge(1)
  \/ AllocCommit(1)
  \/ \E s \in SegIds : FreeEnter(1, s, segs[s].size)
  \/ FreeUnclaim(1)
  \/ SweepEnter(1)

SpecSelect == InitSelect /\ [][NextSelect]_vars

\* ------------------------------------------ SpecAbandoned: abandoned segments
\* The runs of SpecAbandoned: the threads allocate one-block segments in the
\* arena and segments from the OS (requests with an alignment offset do not go
\* to the arenas), abandon them, reclaim them and free them, and sweep.
InitAbandoned ==
  \E d \in PurgeDelays : Start(TRUE, FALSE, Options(d, 0, FALSE))

AbandonedRequests ==
  { Request(MI_ARENA_BLOCK_SIZE, MI_SEGMENT_ALIGN, off, TRUE, FALSE, _mi_arena_id_none, -1) :
      off \in { 0, 1 } }

NextAbandoned ==
  \/ \E t \in Threads, req \in AbandonedRequests : AllocEnter(t, req)
  \/ \E t \in Threads, s \in SegIds : FreeEnter(t, s, segs[s].size)
  \/ \E t \in Threads : Collect(t, TRUE)
  \/ Steps
  \/ \E t \in Threads, s \in SegIds : MarkEnter(t, s)
  \/ \E t \in Threads : MarkClaim(t)
  \/ \E t \in Threads : MarkCount(t)
  \/ \E t \in Threads, s \in SegIds : ClearAbandoned(t, s)
  \/ \E t \in Threads : ClearCount(t)
  \/ \E t \in Threads : ClearNextEnter(t)
  \/ \E t \in Threads : ClearNextField(t)
  \/ \E t \in Threads : ClearNextBit(t)
  \/ \E t \in Threads : ClearNextCount(t)

SpecAbandoned == InitAbandoned /\ [][NextAbandoned]_vars

\* ------------------------------------------- SpecPinned: a pinned arena
\* The runs of SpecPinned: arena 0 lies over pinned memory (large OS pages,
\* arena.c:1360: is_pinned = is_large), arena 1 over ordinary committed memory.
\* One thread allocates (allowing large pages or not), frees (reporting the
\* segment fully committed or not at all) and collects, forced or not, while
\* the clock advances; an OS purge decommits.
InitPinned ==
  /\ LET a0 == NewArena(mi_arena_block_size(ArenaBlocks), TRUE, -1, FALSE,
                        ExternalMemid(TRUE, TRUE, FALSE))
         a1 == NewArena(mi_arena_block_size(ArenaBlocks), FALSE, -1, FALSE,
                        ExternalMemid(TRUE, FALSE, FALSE))
         r0 == ArenaAdded(EmptyRegistry, 0, a0)
         r1 == ArenaAdded(r0.arenas, r0.count, a1)
     IN  /\ mi_arenas = r1.arenas
         /\ mi_arena_count = r1.count
  /\ \E d \in PurgeDelays :
       opt = [ Options(d, 0, FALSE) EXCEPT !.disallow_os_alloc = TRUE,
                                           !.os_needs_recommit = TRUE,
                                           !.os_purge_zeroes = TRUE ]
  /\ purge_guard = 0
  /\ abandoned_count = 0
  /\ now = 0
  /\ StaticsInit
  /\ segs = [ s \in SegIds |-> NoSeg ]
  /\ pc = [ t \in Threads |-> "idle" ]
  /\ loc = [ t \in Threads |-> Idle ]

NextPinned ==
  \/ \E size \in Sizes, commit \in BOOLEAN, allow_large \in BOOLEAN :
       AllocEnter(1, Request(size, MI_SEGMENT_ALIGN, 0, commit, allow_large, _mi_arena_id_none, -1))
  \/ \E s \in SegIds : \E c \in { 0, segs[s].size } : FreeEnter(1, s, c)
  \/ \E force \in BOOLEAN : Collect(1, force)
  \/ Steps
  \/ Tick

SpecPinned == InitPinned /\ [][NextPinned]_vars

\* ------------------------------------- SpecCommit: commit state, two threads
\* The runs of SpecCommit: the arena starts uncommitted, the OS purge decommits,
\* purges are immediate or deferred; thread 1 allocates with and without commit and frees,
\* reporting the segment fully committed or not at all, while thread 2
\* collects (forced).
InitCommit ==
  \E d \in PurgeDelays :
    Start(FALSE, FALSE, [ Options(d, 0, FALSE) EXCEPT !.os_needs_recommit = TRUE,
                                                      !.os_purge_zeroes = TRUE ])

NextCommit ==
  \/ \E size \in Sizes, commit \in BOOLEAN :
       AllocEnter(1, Request(size, MI_SEGMENT_ALIGN, 0, commit, FALSE, _mi_arena_id_none, -1))
  \/ \E s \in SegIds : \E c \in { 0, segs[s].size } : FreeEnter(1, s, c)
  \/ Collect(2, TRUE)
  \/ Steps

SpecCommit == InitCommit /\ [][NextCommit]_vars

\* ------------------------------------------- SpecSweep: sweeps of two arenas
\* The runs of SpecSweep: two ordinary arenas over committed memory, purges are
\* deferred.  Thread 1 allocates segments of two blocks (the second one comes
\* from arena 1) and frees them, each free ending in a sweep that is not
\* forced; thread 2 collects, forced or not, at any time (an allocation starts
\* while thread 2 is outside the allocator); the clock advances.
InitSweep ==
  /\ LET a  == NewArena(mi_arena_block_size(ArenaBlocks), FALSE, -1, FALSE,
                        ExternalMemid(TRUE, FALSE, FALSE))
         r0 == ArenaAdded(EmptyRegistry, 0, a)
         r1 == ArenaAdded(r0.arenas, r0.count, a)
     IN  /\ mi_arenas = r1.arenas
         /\ mi_arena_count = r1.count
  /\ opt = [ Options(10, 0, FALSE) EXCEPT !.disallow_os_alloc = TRUE ]
  /\ purge_guard = 0
  /\ abandoned_count = 0
  /\ now = 0
  /\ StaticsInit
  /\ segs = [ s \in SegIds |-> NoSeg ]
  /\ pc = [ t \in Threads |-> "idle" ]
  /\ loc = [ t \in Threads |-> Idle ]

NextSweep ==
  \/ pc[2] = "idle" /\ AllocEnter(1, Request(MI_ARENA_BLOCK_SIZE + 1, MI_SEGMENT_ALIGN, 0, TRUE, FALSE,
                                            _mi_arena_id_none, -1))
  \/ \E s \in SegIds : FreeEnter(1, s, segs[s].size)
  \/ \E force \in BOOLEAN : Collect(2, force)
  \/ \E t \in Threads : AllocTry(t)
  \/ \E t \in Threads : AllocUnclaimPurge(t)
  \/ \E t \in Threads : AllocCommit(t)
  \/ \E t \in Threads : FreeSchedStore(t)
  \/ \E t \in Threads : FreeSchedClaim(t)
  \/ \E t \in Threads : FreeUnclaim(t)
  \/ \E t \in Threads : SweepEnter(t)
  \/ \E t \in Threads : SweepArena(t)
  \/ \E t \in Threads : SweepCas(t)
  \/ \E t \in Threads : SweepField(t)
  \/ \E t \in Threads : SweepTryClaim(t)
  \/ \E t \in Threads : SweepPurgeRange(t)
  \/ \E t \in Threads : SweepRelease(t)
  \/ \E t \in Threads : SweepResched(t)
  \/ Tick

SpecSweep == InitSweep /\ [][NextSweep]_vars

\* --------------------------------------- SpecScan: the scan of one thread
\* The runs of SpecScan: one thread, with nothing else going on, allocates
\* segments of one or two blocks in the arena, abandons them and scans for
\* abandoned segments, each scan with a cursor that was just initialized.
NextScan ==
  \/ \E req \in Requests : AllocEnter(1, req)
  \/ AllocTry(1)
  \/ AllocUnclaimPurge(1)
  \/ AllocCommit(1)
  \/ \E s \in SegIds : MarkEnter(1, s)
  \/ MarkClaim(1)
  \/ MarkCount(1)
  \/ ClearNextEnter(1)
  \/ ClearNextField(1)
  \/ ClearNextBit(1)
  \/ ClearNextCount(1)

SpecScan == Init /\ [][NextScan]_vars

\* ------------------------------------- SpecRound: one alloc/free round trip
\* The runs of SpecRound: one thread makes the first allocation in a fresh
\* arena (not pinned, over zero memory, committed or not) and frees it, fully
\* committed or not, with a purge delay of 10 ms and not preloading; it collects
\* without force and the clock advances at any point.
InitRound ==
  \E is_committed \in BOOLEAN :
    Start(is_committed, TRUE, [ Options(10, 0, FALSE) EXCEPT !.disallow_os_alloc = TRUE ])

\* requests of 1, 2 and ArenaBlocks blocks
RoundRequests ==
  { Request(size, MI_SEGMENT_ALIGN, 0, commit, FALSE, _mi_arena_id_none, -1) :
      size \in Sizes \cup { mi_arena_block_size(ArenaBlocks) }, commit \in BOOLEAN }

NextRound ==
  \/ \E req \in RoundRequests : mi_arenas[0].ever_alloc = {} /\ AllocEnter(1, req)
  \/ AllocTry(1)
  \/ AllocUnclaimPurge(1)
  \/ AllocCommit(1)
  \/ \E s \in SegIds : \E c \in { 0, segs[s].size } : FreeEnter(1, s, c)
  \/ FreeSchedStore(1)
  \/ FreeSchedClaim(1)
  \/ FreeUnclaim(1)
  \/ Collect(1, FALSE)
  \/ SweepEnter(1)
  \/ SweepArena(1)
  \/ SweepCas(1)
  \/ SweepField(1)
  \/ SweepTryClaim(1)
  \/ SweepPurgeRange(1)
  \/ SweepRelease(1)
  \/ SweepResched(1)
  \/ Tick

SpecRound == InitRound /\ [][NextRound]_vars

\* ------------------------------------ SpecRegistry: concurrent registration
\* arena.c:1295: mi_arena_add increments mi_arena_count and gets the old value
ArenaAddIncrement(t) ==
  /\ pc[t] = "idle"
  /\ mi_arena_count' = mi_arena_count + 1
  /\ Goto(t, "add_store", [ op |-> "add", i |-> mi_arena_count ])
  /\ UNCHANGED << mi_arenas, purge_guard, abandoned_count, now, opt, statics, segs >>

\* arena.c:1296-1304 with the increment taken back by every registration
AddAlwaysDecrementsBug(t) ==
  /\ pc[t] = "add_store"
  /\ LET i == loc[t].i
         a == NewArena(mi_arena_block_size(MI_BITMAP_FIELD_BITS), FALSE, -1, FALSE,
                       ExternalMemid(TRUE, FALSE, FALSE))
     IN  /\ mi_arena_count' = mi_arena_count - 1
         /\ IF i >= MI_MAX_ARENAS THEN UNCHANGED mi_arenas
            ELSE mi_arenas' = SetArena(i, [ a EXCEPT !.id = mi_arena_id_create(i) ])
  /\ Return(t)
  /\ UNCHANGED << purge_guard, abandoned_count, now, opt, statics, segs >>

\* arena.c:1296-1304: with the registry full the increment is taken back and the
\* registration fails; else the arena gets its id and is stored in its slot
ArenaAddFinish(t) ==
  /\ pc[t] = "add_store"
  /\ LET i == loc[t].i
         a == NewArena(mi_arena_block_size(MI_BITMAP_FIELD_BITS), FALSE, -1, FALSE,
                       ExternalMemid(TRUE, FALSE, FALSE))
     IN  IF i >= MI_MAX_ARENAS
         THEN /\ mi_arena_count' = mi_arena_count - 1
              /\ UNCHANGED mi_arenas
         ELSE /\ mi_arenas' = SetArena(i, [ a EXCEPT !.id = mi_arena_id_create(i) ])
              /\ UNCHANGED mi_arena_count
  /\ Return(t)
  /\ UNCHANGED << purge_guard, abandoned_count, now, opt, statics, segs >>

\* arena.c:403 and 905: a reader loads mi_arena_count before it walks the registry
WalkEnter(t) ==
  /\ pc[t] = "idle"
  /\ Goto(t, "walk", [ op |-> "walk", max_arena |-> mi_arena_count, i |-> 0 ])
  /\ UNCHANGED << mi_arenas, mi_arena_count, purge_guard, abandoned_count, now, opt, statics, segs >>

\* arena.c:431-434 with 367 and 917-918: the reader loads mi_arenas[i] for the
\* next i below the count it loaded; beyond the array the load yields whatever
\* lies there: a null word (the slot is skipped) or something taken for an arena
WalkStep(t) ==
  /\ pc[t] = "walk"
  /\ LET l == loc[t]
     IN  IF l.i >= l.max_arena THEN Return(t)
         ELSE IF l.i < MI_MAX_ARENAS THEN Goto(t, "walk", [ l EXCEPT !.i = l.i + 1 ])
         ELSE \E is_null \in BOOLEAN :
                IF is_null THEN Goto(t, "walk", [ l EXCEPT !.i = l.i + 1 ])
                ELSE Goto(t, "walk_wild", l)
  /\ UNCHANGED << mi_arenas, mi_arena_count, purge_guard, abandoned_count, now, opt, statics, segs >>

\* The runs of SpecRegistry: the threads register arenas and walk the registry
\* concurrently, from an empty registry on.
NextRegistry ==
  \/ \E t \in Threads : ArenaAddIncrement(t)
  \/ \E t \in Threads : ArenaAddFinish(t)
  \/ \E t \in Threads : WalkEnter(t)
  \/ \E t \in Threads : WalkStep(t)

SpecRegistry == InitSelect /\ [][NextRegistry]_vars

\* ------------------------------------------ SpecPath: arenas or the OS
\* The runs of SpecPath: one thread fills the registry with arenas of one field
\* (exclusive or not), allocates and frees; arena allocation and OS allocation
\* are each allowed or not, arenas are reserved on demand or not; nothing is
\* purged.
InitPath ==
  /\ mi_arenas = EmptyRegistry
  /\ mi_arena_count = 0
  /\ \E reserve \in { 0, mi_arena_block_size(MI_BITMAP_FIELD_BITS) }, no_arena \in BOOLEAN, no_os \in BOOLEAN :
       opt = [ Options(-1, reserve, FALSE) EXCEPT !.disallow_arena_alloc = no_arena,
                                                  !.disallow_os_alloc = no_os ]
  /\ purge_guard = 0
  /\ abandoned_count = 0
  /\ now = 0
  /\ StaticsInit
  /\ segs = [ s \in SegIds |-> NoSeg ]
  /\ pc = [ t \in Threads |-> "idle" ]
  /\ loc = [ t \in Threads |-> Idle ]

\* requests below half a block, of one block and of a whole arena, that name no
\* arena (0), an arena of the registry or one that may not exist
PathRequests ==
  { Request(size, MI_SEGMENT_ALIGN, 0, TRUE, FALSE, req_arena_id, -1) :
      size \in { MI_ARENA_MIN_OBJ_SIZE - 1, MI_ARENA_BLOCK_SIZE, mi_arena_block_size(MI_BITMAP_FIELD_BITS) },
      req_arena_id \in 0..MaxManaged }

NextPath ==
  \/ \E exclusive \in BOOLEAN : ManageOsMemory(1, exclusive, -1)
  \/ \E req \in PathRequests : AllocEnter(1, req)
  \/ AllocTry(1)
  \/ AllocReserve(1)
  \/ AllocOs(1)
  \/ AllocUnclaimPurge(1)
  \/ AllocCommit(1)
  \/ \E s \in SegIds : FreeEnter(1, s, segs[s].size)
  \/ FreeUnclaim(1)
  \/ SweepEnter(1)

SpecPath == InitPath /\ [][NextPath]_vars

\* ------------------------------------------------- SpecFree: wrong frees
\* the arena memids a caller may pass to _mi_arena_free: any arena id from -1 to
\* one beyond the registry array, any block index up to one field beyond the arena
ForgedMemids ==
  { mi_memid_create_arena(id, FALSE, block_index) :
      id \in -1..(MI_MAX_ARENAS + 1),
      block_index \in 0..(_mi_divide_up(ArenaBlocks, MI_BITMAP_FIELD_BITS) * MI_BITMAP_FIELD_BITS) }

\* The runs of SpecFree: one thread allocates in an arena over committed zero
\* memory, frees its segments and also frees memids it does not hold (double
\* frees, invalid memids), and sweeps; purging is disabled, immediate or
\* deferred, and the OS purge decommits.
InitFree ==
  \E d \in { -1 } \cup PurgeDelays :
    Start(TRUE, TRUE,
          [ Options(d, 0, FALSE) EXCEPT !.os_needs_recommit = TRUE,
                                        !.os_purge_zeroes = TRUE,
                                        !.disallow_os_alloc = TRUE ])

NextFree ==
  \/ \E req \in Requests : AllocEnter(1, req)
  \/ \E s \in SegIds : FreeEnter(1, s, segs[s].size)
  \/ \E memid \in ForgedMemids, size \in Sizes : \E c \in { 0, size } : FreeAgain(1, memid, size, c)
  \/ FreeOob(1)
  \/ \E force \in BOOLEAN : Collect(1, force)
  \/ Steps
  \/ Tick

SpecFree == InitFree /\ [][NextFree]_vars

\* ------------------------------------------------------------ properties
\* all threads are outside the allocator
Quiescent == \A t \in Threads : pc[t] = "idle"

\* the blocks (arena index, bit index) of segment `s`, if it lies in an arena
SegBlocks(s) ==
  IF segs[s].memid.memkind = "MI_MEM_ARENA"
  THEN { << mi_arena_id_index(segs[s].memid.id), b >> :
           b \in Run(mi_block_count_of_size(segs[s].size), segs[s].memid.block_index) }
  ELSE {}

\* the blocks thread `t` has claimed in an allocation that has not returned yet
AllocBlocks(t) ==
  IF pc[t] \in { "a_purge", "a_commit" }
  THEN { << loc[t].arena_index, b >> : b \in Run(loc[t].bcount, loc[t].bitmap_index) }
  ELSE {}

\* the blocks thread `t` is giving back in a free that has not released them yet
FreeBlocks(t) ==
  IF pc[t] \in { "f_purge_now", "f_sched_store", "f_sched_claim", "f_unclaim" }
  THEN { << loc[t].arena_idx, b >> : b \in Run(loc[t].blocks, loc[t].bitmap_idx) }
  ELSE {}

\* the blocks thread `t` holds in blocks_inuse as the sweeper
SweepBlocks(t) ==
  IF pc[t] \in { "s_range", "s_release" }
  THEN { << loc[t].i, b >> : b \in Run(loc[t].bitlen, mi_bitmap_index_create(loc[t].fi, loc[t].bitidx)) }
  ELSE {}

\* the blocks of the live allocations: segments the callers own and allocations
\* that have claimed their blocks
LiveBlocks == UNION ({ SegBlocks(s) : s \in SegIds } \cup { AllocBlocks(t) : t \in Threads })

\* C1 (no double allocation): the block ranges of two live allocations (segments
\* the callers own, allocations that have claimed their blocks and are about to
\* return) never overlap.
NoDoubleAllocation ==
  /\ \A s1, s2 \in SegIds : s1 # s2 => SegBlocks(s1) \cap SegBlocks(s2) = {}
  /\ \A t1, t2 \in Threads : t1 # t2 => AllocBlocks(t1) \cap AllocBlocks(t2) = {}
  /\ \A s \in SegIds, t \in Threads : SegBlocks(s) \cap AllocBlocks(t) = {}

\* two threads own a segment each in the same arena after an earlier segment was freed
TwoArenaSegments ==
  /\ \E s1, s2 \in SegIds :
       /\ s1 # s2 /\ SegBlocks(s1) # {} /\ SegBlocks(s2) # {}
       /\ segs[s1].thread_id # segs[s2].thread_id
  /\ \E i \in ArenaIdx : mi_arenas[i] # NULL /\ mi_arenas[i].blocks_purge # {}

\* the blocks the OS purge of thread `t` has just been applied to
PurgedBlocks(t) ==
  IF pc[t] = "f_unclaim" /\ loc[t].op = "free_purged" THEN FreeBlocks(t)
  ELSE IF pc[t] \in { "s_range", "s_release" } THEN { << loc[t].i, b >> : b \in loc[t].prange }
  ELSE {}

\* C2 (no use-after-purge): the blocks a purge is applied to, by the deferred
\* sweep or by the immediate purge of a free, are no part of a live allocation.
NoUseAfterPurge ==
  \A t \in Threads : PurgedBlocks(t) \cap LiveBlocks = {}

\* the sweep has purged blocks while a segment is live in the same arena
SweepPurgedBesideLive ==
  \E t \in Threads, s \in SegIds :
    /\ pc[t] = "s_release" /\ PurgedBlocks(t) # {}
    /\ \E b1 \in PurgedBlocks(t), b2 \in SegBlocks(s) : b1[1] = b2[1]
\* the blocks a thread holds in blocks_inuse in the middle of a call that sets or
\* clears their blocks_purge bits
TransitBlocks(t) ==
  IF pc[t] = "a_purge" THEN AllocBlocks(t)
  ELSE IF pc[t] = "f_unclaim" THEN FreeBlocks(t)
  ELSE SweepBlocks(t)

BothBits(i) == { << i, b >> : b \in mi_arenas[i].blocks_purge \cap mi_arenas[i].blocks_inuse }

\* C4 as stated (I1): after every atomic transition no block is both marked in
\* blocks_purge and set in blocks_inuse.
PurgeImpliesNotInuse ==
  \A i \in ArenaIdx : mi_arenas[i] # NULL => BothBits(i) = {}

\* C4, amended: a block is both marked in blocks_purge and set in blocks_inuse
\* only while a thread holds it in the middle of a call: an allocation that has
\* claimed it and not yet cleared its purge bit, a free that has scheduled its
\* purge and not yet released it, or the sweep that purges it.  So I1 holds
\* whenever no call is in progress.
PurgeImpliesNotInuseOrHeld ==
  \A i \in ArenaIdx :
    mi_arenas[i] # NULL => BothBits(i) \subseteq UNION { TransitBlocks(t) : t \in Threads }

\* a free has marked its blocks for purge and still holds them
FreeMarkedAndHolds ==
  \E i \in ArenaIdx, t \in Threads :
    mi_arenas[i] # NULL /\ pc[t] = "f_unclaim" /\ BothBits(i) # {} /\ BothBits(i) \subseteq FreeBlocks(t)

\* the number of blocks of the segments in SegIds 1..n that lie in arena `i`
RECURSIVE OutstandingBlocks(_, _)
OutstandingBlocks(i, n) ==
  IF n = 0 THEN 0
  ELSE OutstandingBlocks(i, n - 1)
       + (IF segs[n].memid.memkind = "MI_MEM_ARENA" /\ mi_arena_id_index(segs[n].memid.id) = i
          THEN mi_block_count_of_size(segs[n].size) ELSE 0)

\* C5 as stated (accounting): when no call is in progress, the number of bits set
\* in blocks_inuse equals the number of blocks of the outstanding allocations.
InuseCountsOutstanding ==
  Quiescent => \A i \in ArenaIdx :
    mi_arenas[i] # NULL => Cardinality(mi_arenas[i].blocks_inuse) = OutstandingBlocks(i, MaxSegs)

\* C5, amended: when no call is in progress, the bits set in blocks_inuse below
\* block_count are exactly the blocks of the outstanding allocations, and as many
\* (the bits from block_count on stay set, I7); so an alloc/free round trip
\* restores blocks_inuse.
InuseBelowCountIsOutstanding ==
  Quiescent => \A i \in ArenaIdx :
    mi_arenas[i] # NULL =>
      LET below == mi_arenas[i].blocks_inuse \cap 0..(mi_arenas[i].block_count - 1)
      IN  /\ { << i, b >> : b \in below } = { x \in LiveBlocks : x[1] = i }
          /\ Cardinality(below) = OutstandingBlocks(i, MaxSegs)

\* no call is in progress, a segment is outstanding and another one was freed
QuiescentAfterRoundTrip ==
  /\ Quiescent
  /\ \E s \in SegIds : SegBlocks(s) # {}
  /\ \E i \in ArenaIdx : mi_arenas[i] # NULL /\ mi_arenas[i].blocks_purge # {}

\* the bits of arena `arena` from block_count on
TailBits(arena) == arena.block_count .. (arena.field_count * MI_BITMAP_FIELD_BITS - 1)

\* C6 (I7, tail bits): the bits of blocks_inuse from block_count on are set from
\* creation on forever, and no allocation holds a block index >= block_count.
TailBitsStaySet ==
  /\ \A i \in ArenaIdx : mi_arenas[i] # NULL => TailBits(mi_arenas[i]) \subseteq mi_arenas[i].blocks_inuse
  /\ \A x \in LiveBlocks : mi_arenas[x[1]] # NULL /\ x[2] < mi_arenas[x[1]].block_count

\* a segment ends at the last block of an arena that has tail bits, after a free
\* next to the tail
SegmentNextToTail ==
  \E s \in SegIds, i \in ArenaIdx :
    /\ mi_arenas[i] # NULL /\ TailBits(mi_arenas[i]) # {}
    /\ << i, mi_arenas[i].block_count - 1 >> \in SegBlocks(s)
    /\ mi_arenas[i].blocks_purge # {}

\* C9 (purge expiration): a mi_arenas_try_purge with visit_all that comes, at a
\* time `now` at least the delay after the blocks were marked in blocks_purge and
\* with no other call in progress, to an arena with marked blocks does sweep the
\* arena (so that no block is left marked for good).
ExpiredMarksAreSwept ==
  \A t \in Threads :
    ( /\ pc[t] = "s_arena" /\ loc[t].visit_all /\ loc[t].i < loc[t].max_arena
      /\ \A u \in Threads \ { t } : pc[u] = "idle"
      /\ mi_arenas[loc[t].i] # NULL
      /\ mi_arenas[loc[t].i].blocks_purge # {}
      /\ loc[t].now >= mi_arenas[loc[t].i].mark_time + mi_arena_purge_delay )
    => SweepsArena(mi_arenas[loc[t].i], loc[t].now, loc[t].force)

\* C10 (zero guarantee): the memory of a segment that was handed out with
\* memid.initially_zero set is all zero (until its owner writes to it), given
\* that the OS commit reports is_zero only for a range that is all zero.
InitiallyZeroIsZero ==
  \A s \in SegIds :
    (segs[s].memid.memkind = "MI_MEM_ARENA" /\ segs[s].memid.initially_zero) =>
       \A x \in SegBlocks(s) : mi_arenas[x[1]] # NULL /\ x[2] \in mi_arenas[x[1]].mem_zero

\* a segment is handed out as zero from an arena over memory that was not zero:
\* its blocks were not committed and the commit has reported them zero
ZeroFromRecommit ==
  \E s \in SegIds :
    /\ segs[s].memid.memkind = "MI_MEM_ARENA" /\ segs[s].memid.initially_zero
    /\ ~mi_arenas[mi_arena_id_index(segs[s].memid.id)].memid.initially_zero

\* C7 (I3): in every state a block whose bit is set in blocks_abandoned has its
\* bit set in blocks_inuse, whatever marking, reclaiming, freeing and the sweep do.
AbandonedImpliesInuse ==
  \A i \in ArenaIdx :
    mi_arenas[i] # NULL => mi_arenas[i].blocks_abandoned \subseteq mi_arenas[i].blocks_inuse

\* a segment is marked abandoned while the sweep holds purged blocks of the same
\* arena and another segment has been reclaimed by a thread
AbandonedBesideSweep ==
  \E i \in ArenaIdx, t \in Threads :
    /\ mi_arenas[i] # NULL /\ mi_arenas[i].blocks_abandoned # {}
    /\ pc[t] = "s_release" /\ loc[t].i = i

\* no mark_abandoned, clear_abandoned or clear_abandoned_next is in progress
AbandonedQuiescent ==
  \A t \in Threads : pc[t] \notin { "ab_claim", "ab_inc", "cl_dec", "cn_field", "cn_bit", "cn_dec" }

\* the number of bits of the arenas 0..(n-1) set in blocks_abandoned
RECURSIVE AbandonedBits(_)
AbandonedBits(n) ==
  IF n = 0 THEN 0
  ELSE AbandonedBits(n - 1)
       + (IF mi_arenas[n - 1] # NULL THEN Cardinality(mi_arenas[n - 1].blocks_abandoned) ELSE 0)

\* the segments outside the arenas that are abandoned
AbandonedOsSegs == { s \in AbandonedSegs : segs[s].memid.memkind # "MI_MEM_ARENA" }

\* C8, first part: when no abandon or reclaim call is in progress, abandoned_count
\* is the number of bits set in the blocks_abandoned bitmaps plus the number of
\* abandoned segments outside the arenas.
AbandonedCountAtQuiescence ==
  AbandonedQuiescent => abandoned_count = AbandonedBits(MI_MAX_ARENAS) + Cardinality(AbandonedOsSegs)

\* C8, second part: abandoned_count never underflows (it never wraps around to a
\* value above the number of segments).
AbandonedCountNoUnderflow == abandoned_count <= MaxSegs

\* C8 (abandoned count) as stated: both parts.
AbandonedCountExact == AbandonedCountAtQuiescence /\ AbandonedCountNoUnderflow

\* C3 (exclusive respect): the arena an allocation has claimed its blocks in is
\* the arena the request names, if it names one, and is not exclusive if the
\* request names none (the arena may be one that the call has just reserved).
ExclusiveRespected ==
  \A t \in Threads :
    AllocBlocks(t) # {} =>
      LET arena == mi_arenas[loc[t].arena_index]
          req_arena_id == loc[t].req.req_arena_id
      IN  /\ arena # NULL
          /\ loc[t].memid.id = arena.id
          /\ req_arena_id # _mi_arena_id_none => arena.id = req_arena_id
          /\ req_arena_id = _mi_arena_id_none => ~arena.exclusive

\* a request that names no arena is served from an arena reserved for it while an
\* exclusive arena has a free block
ReservedBesideExclusive ==
  \E t \in Threads, i \in ArenaIdx :
    /\ pc[t] = "a_commit" /\ loc[t].req.req_arena_id = _mi_arena_id_none
    /\ mi_arenas[loc[t].arena_index].memid.memkind = "MI_MEM_OS"
    /\ mi_arenas[i] # NULL /\ mi_arenas[i].exclusive
    /\ mi_arenas[i].blocks_inuse # 0..(mi_arenas[i].field_count * MI_BITMAP_FIELD_BITS - 1)

\* ------------------------------------------------------- dirty tracking
\* thread `t` returns from an allocation that it served from an arena
AllocReturns(t) == pc[t] = "a_commit" /\ pc'[t] = "idle"

\* the memid the caller gets in that step
ReturnedMemid == segs'[SetMin(EmptySlots)].memid

\* the arena and the range of the allocation thread `t` is about to return
AllocArena(t) == mi_arenas[loc[t].arena_index]
AllocRun(t) == Run(loc[t].bcount, loc[t].bitmap_index)

\* no block of the range has been handed out before
FreshRange(t) == AllocRun(t) \cap AllocArena(t).ever_alloc = {}

\* no step clears a bit of blocks_dirty
DirtyBitsKept ==
  \A i \in ArenaIdx :
    mi_arenas[i] # NULL =>
      mi_arenas'[i] # NULL /\ mi_arenas[i].blocks_dirty \subseteq mi_arenas'[i].blocks_dirty

\* C11 as stated (dirty tracking): in an arena created with initially_zero an
\* allocation returns memid.initially_zero = true if no block of its range was
\* handed out before, and false if some block of its range was; no dirty bit is
\* ever cleared.
DirtyTrackingExact ==
  [][ /\ DirtyBitsKept
      /\ \A t \in Threads :
           (AllocReturns(t) /\ AllocArena(t).memid.initially_zero) =>
              (ReturnedMemid.initially_zero <=> FreshRange(t)) ]_vars

\* C11, amended: in an arena created with initially_zero an allocation of
\* blocks never handed out before returns initially_zero = true; an allocation
\* of a range with a block handed out before returns initially_zero = false
\* unless it asked for committed memory, some block of the range was not
\* committed, and the OS commit has reported the range zero; no dirty bit is
\* ever cleared.
DirtyTrackingUnlessRecommitted ==
  [][ /\ DirtyBitsKept
      /\ \A t \in Threads :
           (AllocReturns(t) /\ AllocArena(t).memid.initially_zero) =>
              /\ FreshRange(t) => ReturnedMemid.initially_zero
              /\ (~FreshRange(t) /\ ReturnedMemid.initially_zero) =>
                    /\ loc[t].req.commit
                    /\ ~(AllocRun(t) \subseteq AllocArena(t).blocks_committed)
                    /\ AllocRun(t) \subseteq AllocArena(t).mem_zero ]_vars

\* a segment of blocks handed out before is held with initially_zero = false,
\* in an arena created over zero memory
ReallocatedNotZero ==
  \E s \in SegIds :
    /\ segs[s].memid.memkind = "MI_MEM_ARENA" /\ ~segs[s].memid.initially_zero
    /\ mi_arenas[mi_arena_id_index(segs[s].memid.id)].memid.initially_zero


\* ---------------------------------------------------------- wrong frees
\* thread `t` takes a step of a _mi_arena_free whose range holds no block in
\* use: the second free of an allocation that was freed before
DoubleFreeStep(t) ==
  LET FreePcs == { "f_purge_now", "f_sched_store", "f_sched_claim", "f_unclaim" }
      Clear(l) == Run(l.blocks, l.bitmap_idx) \cap mi_arenas[l.arena_idx].blocks_inuse = {}
  IN  \/ pc[t] \in FreePcs /\ Clear(loc[t])
      \/ pc[t] = "idle" /\ pc'[t] \in FreePcs /\ Clear(loc'[t])

\* the fields of the arena descriptors (without the history kept beside them)
ArenaState(arenas) ==
  [ i \in ArenaIdx |->
      IF arenas[i] = NULL THEN NULL
      ELSE [ blocks_inuse |-> arenas[i].blocks_inuse, blocks_purge |-> arenas[i].blocks_purge,
             blocks_committed |-> arenas[i].blocks_committed, blocks_dirty |-> arenas[i].blocks_dirty,
             blocks_abandoned |-> arenas[i].blocks_abandoned, purge_expire |-> arenas[i].purge_expire ] ]

\* C12 (double-free detection): a second free of an allocation that was freed
\* before leaves the arenas unchanged: none of its steps toggles a bit of
\* blocks_inuse, blocks_purge, blocks_committed, blocks_dirty or
\* blocks_abandoned or changes purge_expire.
DoubleFreeChangesNothing ==
  [][ \A t \in Threads : DoubleFreeStep(t) => ArenaState(mi_arenas') = ArenaState(mi_arenas) ]_vars

\* C13 (invalid-arena free): a free with a memid whose arena index is out of
\* range is diagnosed and ignored without reading mi_arenas outside the indices
\* 0..MI_MAX_ARENAS-1: no thread is ever at the read beyond the array or astray
\* after it.  (A free that is diagnosed returns at once, changing nothing.)
InvalidFreeIgnored ==
  \A t \in Threads : pc[t] \notin { "f_oob", "f_wild" }


\* ------------------------------------------------- arenas or the OS
\* thread `t` is at arena.c:601 (no arena has served its request) and the call
\* can end by returning memory of the OS
OsCanServe(t) == ENABLED (AllocOs(t) /\ segs' # segs)

\* a non-exclusive arena has a free block
SharedArenaHasRoom ==
  \E i \in ArenaIdx :
    /\ mi_arenas[i] # NULL /\ ~mi_arenas[i].exclusive
    /\ mi_arenas[i].blocks_inuse # 0..(mi_arenas[i].field_count * MI_BITMAP_FIELD_BITS - 1)

\* C14 as stated (OS fallback): for every request, naming an arena or not, that
\* no arena has served (with OS allocation not disallowed), the call goes on to
\* the OS: it can return memory of the OS, and returns NONE only if the OS fails.
OsFallbackForEveryRequest ==
  \A t \in Threads :
    (pc[t] = "a_os" /\ ~opt.disallow_os_alloc) => OsCanServe(t)

\* C14, amended: a request that no arena has served goes on to the OS exactly
\* if it names no arena and OS allocation is not disallowed; a request that
\* names an arena gets NONE without the OS being asked.  Memory returned at
\* that point is tagged MI_MEM_OS.
OsFallbackUnlessArenaNamed ==
  \A t \in Threads :
    pc[t] = "a_os" =>
      /\ OsCanServe(t) <=> (loc[t].req.req_arena_id = _mi_arena_id_none /\ ~opt.disallow_os_alloc)
      /\ \A s \in SegIds : segs[s].memid.memkind \in { "MI_MEM_NONE", "MI_MEM_OS", "MI_MEM_ARENA" }

\* a request of arena size that names no arena has been tried in the arenas of
\* the registry, not been served, and is about to go to the OS
ArenasFailedOsNext ==
  \E t \in Threads :
    /\ pc[t] = "a_os" /\ mi_arena_count > 0
    /\ loc[t].req.req_arena_id = _mi_arena_id_none /\ loc[t].req.size >= MI_ARENA_MIN_OBJ_SIZE
    /\ ~opt.disallow_os_alloc /\ ~opt.disallow_arena_alloc

\* C15 (path forcing): with disallow_os_alloc no segment is memory of the OS and
\* a call that no arena has served returns NONE; with disallow_arena_alloc a
\* request that names no arena goes straight to the OS (it is never tried in an
\* arena) and no arena is ever reserved.
PathForced ==
  /\ opt.disallow_os_alloc =>
       /\ \A s \in SegIds : segs[s].memid.memkind # "MI_MEM_OS"
       /\ \A t \in Threads : pc[t] = "a_os" => ~OsCanServe(t)
  /\ opt.disallow_arena_alloc =>
       /\ \A t \in Threads :
            (t \in Allocating /\ loc[t].req.req_arena_id = _mi_arena_id_none) => pc[t] = "a_os"
       /\ \A i \in ArenaIdx : mi_arenas[i] # NULL => mi_arenas[i].memid.memkind = "MI_MEM_EXTERNAL"

\* with both options set a request of arena size that names no arena is about
\* to return NONE while a non-exclusive arena has a free block
ForcedToNone ==
  \E t \in Threads :
    /\ pc[t] = "a_os" /\ opt.disallow_os_alloc /\ opt.disallow_arena_alloc
    /\ loc[t].req.req_arena_id = _mi_arena_id_none /\ loc[t].req.size >= MI_ARENA_MIN_OBJ_SIZE
    /\ SharedArenaHasRoom

\* C17 (size threshold): a request of less than half a block, whatever arena
\* it names and whatever the registry holds, is never tried in an arena and
\* reserves none: no step of the call changes an arena or the registry, and
\* memory it returns is memory of the OS.
SmallNeverFromArena ==
  [][ \A t \in Threads :
        ( \/ t \in Allocating /\ loc[t].req.size < MI_ARENA_MIN_OBJ_SIZE
          \/ pc[t] = "idle" /\ pc'[t] # "idle" /\ loc'[t].op = "alloc"
               /\ loc'[t].req.size < MI_ARENA_MIN_OBJ_SIZE ) =>
          /\ mi_arenas' = mi_arenas /\ mi_arena_count' = mi_arena_count
          /\ pc'[t] \in { "a_os", "idle" }
          /\ segs' # segs => ReturnedMemid.memkind = "MI_MEM_OS" ]_vars

\* a segment of less than half a block is held as memory of the OS while a
\* non-exclusive arena has a free block and arena allocation is allowed
SmallFromOsBesideArena ==
  /\ \E s \in SegIds : segs[s].memid.memkind = "MI_MEM_OS" /\ segs[s].size < MI_ARENA_MIN_OBJ_SIZE
  /\ SharedArenaHasRoom /\ ~opt.disallow_arena_alloc


\* ------------------------------------------------------ NUMA selection
\* arenas of the registry that may serve a request naming no arena and that
\* have a free run of `bcount` blocks; `affine`: on the node of the request or
\* on no node, else on another node
ArenasWithRun(req, bcount, affine) ==
  { i \in 0..(mi_arena_count - 1) :
      /\ mi_arenas[i] # NULL /\ ~mi_arenas[i].exclusive
      /\ req.allow_large \/ ~mi_arenas[i].is_large
      /\ affine <=> (mi_arenas[i].numa_node < 0 \/ mi_arenas[i].numa_node = req.numa_node)
      /\ \E b \in 0..(mi_arenas[i].field_count * MI_BITMAP_FIELD_BITS - bcount) :
           Run(bcount, b) \cap mi_arenas[i].blocks_inuse = {} }

\* C16 (NUMA selection): for a request of arena size that names no arena and
\* asks for a node >= 0, with no concurrent allocation: blocks are taken from
\* an arena of another node only if no arena that may serve the request, on its
\* node or on no node, has a free run of the length; and the call goes on to a
\* reservation or to the OS only if no such arena of any node has one.
NumaSelection ==
  \A t \in Threads :
    (t \in Allocating /\ loc[t].req.req_arena_id = _mi_arena_id_none /\ loc[t].req.numa_node >= 0
       /\ loc[t].req.size >= MI_ARENA_MIN_OBJ_SIZE) =>
      LET req == loc[t].req
          bcount == mi_block_count_of_size(req.size)
      IN  /\ (pc[t] \in { "a_purge", "a_commit" }
                /\ mi_arenas[loc[t].arena_index].numa_node \notin { -1, req.numa_node })
                => ArenasWithRun(req, bcount, TRUE) = {}
          /\ pc[t] \in { "a_reserve", "a_os" }
                => ArenasWithRun(req, bcount, TRUE) \cup ArenasWithRun(req, bcount, FALSE) = {}

\* blocks were taken from an arena of node 0 for a request on node 1, past a
\* full arena of node 1 that comes first in the registry
CrossNumaFallback ==
  \E t \in Threads :
    /\ pc[t] = "a_commit" /\ loc[t].req.req_arena_id = _mi_arena_id_none
    /\ loc[t].req.numa_node = 1 /\ loc[t].arena_index = 1
    /\ mi_arenas[1].numa_node = 0
    /\ mi_arenas[0].numa_node = 1 /\ ~mi_arenas[0].exclusive


\* ------------------------------------------- round trip, deferred purge
\* C18 (alloc/free round trip with deferred purge), for the first allocation in
\* a fresh arena that is not pinned, purge delay 10 ms, not preloading: the
\* allocation of size s claims exactly the ceil(s/B) bits of blocks_inuse from
\* bit 0 on and returns the start of block 0; once the free has cleared
\* blocks_inuse, exactly those bits are clear again and, until a sweep that is
\* not forced finds the deadline passed, blocks_purge holds exactly that range
\* and purge_expire > 0; such a sweep starts only with purge_expire <= now.
RoundTripDeferred ==
  LET a     == mi_arenas[0]
      tail  == TailBits(a)
      range == a.ever_alloc
      l     == loc[1]
  IN  /\ pc[1] \in { "a_purge", "a_commit" } =>
           /\ (l.bcount - 1) * MI_ARENA_BLOCK_SIZE < l.req.size
           /\ l.req.size <= l.bcount * MI_ARENA_BLOCK_SIZE
           /\ a.blocks_inuse = (0..(l.bcount - 1)) \cup tail
           /\ l.memid.memkind = "MI_MEM_ARENA" /\ l.memid.id = a.id
           /\ l.memid.block_index = 0 /\ l.bitmap_index = 0
           /\ l.p = l.memid.block_index * MI_ARENA_BLOCK_SIZE
      /\ \A s \in SegIds : segs[s].memid.memkind # "MI_MEM_NONE" =>
           /\ segs[s].memid.memkind = "MI_MEM_ARENA" /\ segs[s].memid.block_index = 0
           /\ range = 0..(Cardinality(range) - 1)
           /\ (Cardinality(range) - 1) * MI_ARENA_BLOCK_SIZE < segs[s].size
           /\ segs[s].size <= Cardinality(range) * MI_ARENA_BLOCK_SIZE
           /\ a.blocks_inuse = range \cup tail
           /\ a.blocks_purge = {} /\ a.purge_expire = 0
      /\ pc[1] \in { "f_sched_store", "f_sched_claim", "f_unclaim" } =>
           /\ a.blocks_inuse = range \cup tail
           /\ Run(l.blocks, l.bitmap_idx) = range
           /\ pc[1] = "f_unclaim" => a.blocks_purge = range /\ a.purge_expire > 0
      /\ (range # {} /\ segs = [ s \in SegIds |-> NoSeg ]
            /\ pc[1] \in { "idle", "s_enter", "s_arena", "s_cas", "s_field", "s_claim",
                            "s_range", "s_release", "s_resched" }) =>
           /\ pc[1] \in { "idle", "s_enter", "s_arena", "s_cas" } => a.blocks_inuse = tail
           /\ tail \subseteq a.blocks_inuse /\ a.blocks_inuse \subseteq range \cup tail
           /\ \/ /\ a.blocks_purge = range /\ a.purge_expire > 0
                 /\ a.blocks_committed \in { {}, range, 0..(a.field_count * MI_BITMAP_FIELD_BITS - 1),
                                               (0..(a.field_count * MI_BITMAP_FIELD_BITS - 1)) \ range }
                 /\ pc[1] = "s_cas" => a.purge_expire <= now
                 /\ pc[1] \notin { "s_field", "s_claim", "s_range", "s_release", "s_resched" }
              \/ /\ a.purge_expire = 0 /\ a.blocks_purge \subseteq range
                 /\ now >= mi_arena_purge_delay

\* a segment of two blocks was allocated and freed: its blocks are marked for a
\* purge whose deadline has not passed, and no sweep has touched them
RoundTripMarked ==
  /\ pc[1] = "idle" /\ segs = [ s \in SegIds |-> NoSeg ]
  /\ mi_arenas[0].ever_alloc = { 0, 1 } /\ mi_arenas[0].blocks_purge = { 0, 1 }
  /\ mi_arenas[0].blocks_inuse = TailBits(mi_arenas[0])
  /\ mi_arenas[0].purge_expire > now


\* ----------------------------------------------------- purging disabled
\* C19 (purging disabled): while purge_delay * arena_purge_mult is negative, no
\* allocation, free or collect (forced or not) reaches a call of the OS purge
\* (neither the purge of a free nor the steps of a sweep, so no committed bit
\* is cleared by a purge), no bit of blocks_purge is ever set and purge_expire
\* stays 0 in every arena.
PurgingDisabled ==
  opt.purge_delay * opt.arena_purge_mult < 0 =>
    /\ \A i \in ArenaIdx :
         mi_arenas[i] # NULL => mi_arenas[i].blocks_purge = {} /\ mi_arenas[i].purge_expire = 0
    /\ \A t \in Threads :
         /\ pc[t] \notin { "f_purge_now", "f_sched_store", "f_sched_claim", "s_arena", "s_cas",
                            "s_field", "s_claim", "s_range", "s_release", "s_resched" }
         /\ loc[t].op # "free_purged"
    /\ purge_guard = 0

\* with purging disabled a forced collect begins after blocks have been
\* allocated and freed
ForcedCollectDisabled ==
  /\ opt.purge_delay * opt.arena_purge_mult < 0
  /\ \E t \in Threads : pc[t] = "s_enter" /\ loc[t].force
  /\ mi_arenas[0].ever_alloc # {} /\ mi_arenas[0].blocks_inuse = TailBits(mi_arenas[0])


\* ---------------------------------------------------- single-writer sweep
\* the threads inside the guarded block of mi_arenas_try_purge
InSweepBody ==
  { t \in Threads : pc[t] \in { "s_arena", "s_cas", "s_field", "s_claim", "s_range",
                                "s_release", "s_resched" } }

\* C20 (single-writer sweep): at most one thread at a time is inside the guarded
\* block of mi_arenas_try_purge; the guard is taken exactly while a thread is
\* inside (it is released when the sweep finishes, so a later sweep can
\* enter); and a thread that arrives while the guard is taken does not wait:
\* its next step returns from the sweep.
SingleWriterSweep ==
  /\ Cardinality(InSweepBody) <= 1
  /\ purge_guard = IF InSweepBody = {} THEN 0 ELSE 1
  /\ \A t \in Threads :
       (pc[t] = "s_enter" /\ purge_guard # 0) => ENABLED (SweepEnter(t) /\ pc'[t] = "idle")

\* one thread is purging a range inside the guarded block while another arrives
\* at the sweep
SweeperMeetsGuard ==
  \E t, u \in Threads :
    /\ pc[t] = "s_range" /\ pc[u] = "s_enter" /\ purge_guard = 1
    /\ ~opt.preloading /\ mi_arena_purge_delay > 0


\* ---------------------------------------------------- deadline consumption
\* C21 as stated (deadline consumption): a sweep whose compare-and-swap of
\* purge_expire fails, because the deadline changed after the sweep observed
\* it, gives up the arena without purging: its next step is the next arena or
\* the end of the sweep.
SweepAbortsOnFailedCas ==
  [][ \A t \in Threads :
        (pc[t] = "s_cas" /\ pc'[t] # "s_cas"
           /\ mi_arenas[loc[t].i].purge_expire # loc[t].expire)
          => pc'[t] \in { "s_arena", "idle" } ]_vars

\* C21, amended: purge_expire goes from a deadline to 0 only by the
\* compare-and-swap of a sweep that observed that very deadline; a
\* compare-and-swap that fails leaves purge_expire as it is; and in both cases
\* the sweep goes on to walk the purge bits of the arena.
DeadlineResetBySweepOnly ==
  [][ /\ \A i \in ArenaIdx :
           (mi_arenas[i] # NULL /\ mi_arenas[i].purge_expire # 0 /\ mi_arenas'[i].purge_expire = 0)
             => \E t \in Threads : /\ pc[t] = "s_cas" /\ pc'[t] = "s_field"
                                    /\ loc[t].i = i /\ loc[t].expire = mi_arenas[i].purge_expire
      /\ \A t \in Threads :
           (pc[t] = "s_cas" /\ pc'[t] # "s_cas") =>
             /\ pc'[t] = "s_field"
             /\ mi_arenas[loc[t].i].purge_expire # loc[t].expire
                  => mi_arenas'[loc[t].i].purge_expire = mi_arenas[loc[t].i].purge_expire ]_vars

\* a sweep is about to compare-and-swap a deadline that a free has extended
\* since the sweep observed it
CasAboutToFail ==
  \E t \in Threads :
    /\ pc[t] = "s_cas" /\ loc[t].expire # 0
    /\ mi_arenas[loc[t].i].purge_expire > loc[t].expire


\* --------------------------------------------- re-scheduling of a sweep
\* C22 (re-scheduling after an incomplete sweep): when no call is in progress,
\* an arena with a block marked in blocks_purge has purge_expire # 0 (a sweep
\* that left a marked block unpurged has set a new deadline).
MarkedImpliesDeadline ==
  Quiescent =>
    \A i \in ArenaIdx :
      (mi_arenas[i] # NULL /\ mi_arenas[i].blocks_purge # {}) => mi_arenas[i].purge_expire # 0


\* ------------------------------------------------------ registry capacity
\* C23 (registry capacity): under concurrent registrations mi_arena_count never
\* exceeds MI_MAX_ARENAS, so a reader that walks the indices below the count it
\* loaded loads only the slots 0..MI_MAX_ARENAS-1 of the registry.
RegistryWithinCapacity ==
  /\ mi_arena_count <= MI_MAX_ARENAS
  /\ \A t \in Threads :
       /\ pc[t] = "walk" => (loc[t].max_arena <= MI_MAX_ARENAS /\ loc[t].i <= MI_MAX_ARENAS)
       /\ pc[t] # "walk_wild"


\* ------------------------------------------------------ two-phase reclaim
\* C24 (two-phase reclaim): whenever the abandoned bit of an arena segment is
\* set its thread_id is 0; _mi_arena_segment_clear_abandoned_next returns a
\* segment whose bit it cleared and whose thread_id is still 0; the thread_id
\* of an arena segment without owner is written only by the thread that has
\* cleared its abandoned bit, and abandoned_count changes only in the counting
\* step of a mark or of a successful clear (a failed clear changes nothing).
TwoPhaseReclaim ==
  [][ /\ \A s \in SegIds :
           (segs'[s].memid.memkind = "MI_MEM_ARENA"
              /\ segs'[s].memid.block_index
                    \in mi_arenas'[mi_arena_id_index(segs'[s].memid.id)].blocks_abandoned)
             => segs'[s].thread_id = NoThread
      /\ \A t \in Threads :
           (pc'[t] = "cn_dec" /\ pc[t] # "cn_dec") =>
             /\ loc'[t].bitmap_idx \notin mi_arenas'[loc'[t].arena_idx].blocks_abandoned
             /\ \E s \in SegIds :
                  /\ segs'[s].memid.memkind = "MI_MEM_ARENA"
                  /\ mi_arena_id_index(segs'[s].memid.id) = loc'[t].arena_idx
                  /\ segs'[s].memid.block_index = loc'[t].bitmap_idx
                  /\ segs'[s].thread_id = NoThread
      /\ \A s \in SegIds :
           (segs[s].memid.memkind = "MI_MEM_ARENA" /\ segs[s].thread_id = NoThread
              /\ segs'[s].thread_id # NoThread) =>
             /\ segs[s].memid.block_index
                  \notin mi_arenas[mi_arena_id_index(segs[s].memid.id)].blocks_abandoned
             /\ \E t \in Threads :
                  /\ segs'[s].thread_id = t /\ pc'[t] = "idle"
                  /\ \/ pc[t] = "cl_dec" /\ loc[t].seg = s
                     \/ /\ pc[t] = "cn_dec"
                        /\ loc[t].arena_idx = mi_arena_id_index(segs[s].memid.id)
                        /\ loc[t].bitmap_idx = segs[s].memid.block_index
      /\ abandoned_count' # abandoned_count =>
           \E t \in Threads : pc[t] \in { "ab_inc", "cl_dec", "cn_dec" } /\ pc'[t] = "idle" ]_vars

\* a thread has cleared the abandoned bit of an arena segment that another
\* thread abandoned and is about to write its thread id into it
ReclaimWon ==
  \E t \in Threads, s \in SegIds :
    /\ pc[t] = "cl_dec" /\ loc[t].seg = s
    /\ segs[s].memid.memkind = "MI_MEM_ARENA" /\ segs[s].thread_id = NoThread
    /\ \A u \in Threads \ { t } : pc[u] = "idle"


\* ---------------------------------------------------- exclusive reclaim
\* C26 (exclusive reclaim): of the calls of _mi_arena_segment_clear_abandoned
\* and _mi_arena_segment_clear_abandoned_next that contend for a segment that
\* was abandoned at most one wins: no two threads are past the successful
\* unclaim of the same abandoned bit, a thread past it finds the segment still
\* without owner, and a segment passes from one owner to another only through
\* thread_id = 0 (a new mark); each winner decrements abandoned_count once, in
\* the step in which it returns.
ExclusiveReclaim ==
  [][ /\ \A t \in Threads :
           (pc'[t] \in { "cl_dec", "cn_dec" } /\ pc[t] \notin { "cl_dec", "cn_dec" }) =>
             /\ abandoned_count' = abandoned_count
             /\ \A u \in Threads \ { t } :
                  ~ /\ pc'[u] \in { "cl_dec", "cn_dec" }
                    /\ LET at(l) == IF l.op = "clear"
                                    THEN IF l.seg = 0 THEN << -1, l.seg >>
                                         ELSE << mi_arena_id_index(segs'[l.seg].memid.id),
                                                 segs'[l.seg].memid.block_index >>
                                    ELSE << l.arena_idx, l.bitmap_idx >>
                       IN  at(loc'[t]) = at(loc'[u]) /\ at(loc'[t])[1] >= 0
      /\ \A t \in Threads :
           (pc[t] \in { "cl_dec", "cn_dec" } /\ pc'[t] # pc[t]) =>
             /\ pc'[t] = "idle"
             /\ abandoned_count' = AddCount(abandoned_count, -1)
      /\ \A s \in SegIds :
           (segs[s].thread_id # NoThread /\ segs'[s].memid = segs[s].memid
              /\ segs'[s].memid.memkind # "MI_MEM_NONE")
             => segs'[s].thread_id \in { segs[s].thread_id, NoThread } ]_vars

\* a thread has won the abandoned bit of an arena segment while another, which
\* loaded the field with the bit still set, is about to try the same bit
ReclaimContended ==
  \E t, u \in Threads, s \in SegIds :
    /\ pc[t] = "cl_dec" /\ loc[t].seg = s /\ segs[s].memid.memkind = "MI_MEM_ARENA"
    /\ pc[u] = "cn_bit" /\ CursorArena(loc[u]) = mi_arena_id_index(segs[s].memid.id)
    /\ loc[u].field_idx = mi_bitmap_index_field(segs[s].memid.block_index)
    /\ mi_bitmap_index_bit_in_field(segs[s].memid.block_index) \in loc[u].field
    /\ mi_bitmap_index_bit_in_field(segs[s].memid.block_index) >= loc[u].bit_idx


\* ------------------------------------------------- abandoned scan
\* C27 (abandoned scan completeness): with no concurrent activity, when
\* _mi_arena_segment_clear_abandoned_next, called again and again from a
\* freshly initialized cursor on, returns NULL, every abandoned segment has
\* been returned: no abandoned bit is set any more.
ScanReturnsAll ==
  [][ (pc[1] = "cn_field" /\ pc'[1] = "idle") =>
        \A i \in ArenaIdx : mi_arenas[i] # NULL => mi_arenas[i].blocks_abandoned = {} ]_vars


PinnedNeverPurged ==
  \A i \in ArenaIdx :
    (mi_arenas[i] # NULL /\ mi_arenas[i].memid.is_pinned) =>
      /\ mi_arenas[i].purge_expire = 0
      /\ mi_arenas[i].blocks_purge = {}
      /\ mi_arenas[i].blocks_committed = {}
      /\ \A t \in Threads :
           /\ pc[t] \in { "f_purge_now", "f_sched_store", "f_sched_claim" } => loc[t].arena_idx # i
           /\ pc[t] \in { "s_cas", "s_field", "s_claim", "s_range", "s_release", "s_resched" }
                => loc[t].i # i
           /\ (pc[t] = "f_unclaim" /\ loc[t].arena_idx = i) => loc[t].op = "free"
      /\ \A s \in SegIds :
           (segs[s].memid.memkind = "MI_MEM_ARENA" /\ mi_arena_id_index(segs[s].memid.id) = i) =>
              segs[s].memid.initially_committed /\ segs[s].memid.is_pinned

\* a free of a segment of the pinned arena is past the purge decision, in a run
\* that purges at once, while another segment of the pinned arena is held
PinnedFreePastPurge ==
  \E t \in Threads :
    /\ pc[t] = "f_unclaim" /\ loc[t].arena_idx = 0
    /\ mi_arenas[0].memid.is_pinned
    /\ mi_arena_purge_delay = 0
    /\ \E s \in SegIds : /\ segs[s].memid.memkind = "MI_MEM_ARENA"
                         /\ mi_arena_id_index(segs[s].memid.id) = 0


\* ------------------------------------------------- commit policy
\* C29 (commit policy on alloc): in an arena with a committed bitmap, an
\* allocation that asks for committed memory sets the committed bits of its
\* whole range; if all of them were set already the OS is not asked (the pages
\* stay as they are) and initially_committed is true; otherwise
\* initially_committed is true with the pages of the range committed by the
\* OS, or false because the OS commit failed.  An allocation that does not ask
\* for committed memory changes no committed bit and no page, and its
\* initially_committed tells whether all committed bits of the range were set.
CommitPolicy ==
  [][ \A t \in Threads :
        (pc[t] = "a_commit" /\ pc'[t] = "idle") =>
          LET l   == loc[t]
              a   == mi_arenas[l.arena_index]
              a2  == mi_arenas'[l.arena_index]
              run == Run(l.bcount, l.bitmap_index)
              m   == segs'[SetMin(EmptySlots)].memid
          IN  ~a.memid.is_pinned =>
                IF l.req.commit
                THEN /\ a2.blocks_committed = a.blocks_committed \cup run
                     /\ IF run \subseteq a.blocks_committed
                        THEN m.initially_committed /\ a2.mem_committed = a.mem_committed
                        ELSE \/ m.initially_committed /\ a2.mem_committed = a.mem_committed \cup run
                             \/ ~m.initially_committed /\ a2.mem_committed = a.mem_committed
                ELSE /\ a2.blocks_committed = a.blocks_committed
                     /\ a2.mem_committed = a.mem_committed
                     /\ m.initially_committed = (run \subseteq a.blocks_committed) ]_vars

\* a segment was handed out with initially_committed = false although the
\* committed bits of its range are set: its allocation asked for committed
\* memory and the OS commit failed
CommitFailedOnAlloc ==
  \E s \in SegIds :
    /\ segs[s].memid.memkind = "MI_MEM_ARENA"
    /\ ~segs[s].memid.initially_committed
    /\ LET a   == mi_arenas[mi_arena_id_index(segs[s].memid.id)]
           run == Run(mi_block_count_of_size(segs[s].size), segs[s].memid.block_index)
       IN  /\ run \subseteq a.blocks_committed
           /\ run \cap a.mem_committed = {}
           /\ Cardinality(run) = 2


\* ------------------------------------------------- committed bitmap
\* C30 (committed bitmap soundness): in an arena with a committed bitmap, a
\* block that is free (its inuse bit is clear) and has its committed bit set
\* has its pages committed; and a segment that was handed out with
\* initially_committed = true has the pages of all its blocks committed.
CommittedSound ==
  /\ \A i \in ArenaIdx :
       (mi_arenas[i] # NULL /\ ~mi_arenas[i].memid.is_pinned) =>
          \A b \in 0..(mi_arenas[i].block_count - 1) :
            (b \notin mi_arenas[i].blocks_inuse /\ b \in mi_arenas[i].blocks_committed)
               => b \in mi_arenas[i].mem_committed
  /\ \A s \in SegIds :
       (segs[s].memid.memkind = "MI_MEM_ARENA" /\ segs[s].memid.initially_committed) =>
          Run(mi_block_count_of_size(segs[s].size), segs[s].memid.block_index)
            \subseteq mi_arenas[mi_arena_id_index(segs[s].memid.id)].mem_committed

\* a sweep has just purged a run, whose pages the OS decommitted and whose
\* committed bits are clear, beside a free block with its committed bit set,
\* while thread 1 is about to settle the commit state of an allocation
SweepPurgedBesideCommitted ==
  \E t \in Threads :
    /\ pc[t] = "s_release" /\ loc[t].prange # {}
    /\ loc[t].prange \cap mi_arenas[loc[t].i].mem_committed = {}
    /\ loc[t].prange \cap mi_arenas[loc[t].i].blocks_committed = {}
    /\ \E b \in 0..(mi_arenas[loc[t].i].block_count - 1) :
         b \notin mi_arenas[loc[t].i].blocks_inuse /\ b \in mi_arenas[loc[t].i].blocks_committed
    /\ pc[1] = "a_commit"


\* ------------------------------------------------- free of a partial range
\* C31 (free of a partially committed range): a free on an arena with a
\* committed bitmap that reports its range as not fully committed (the pages
\* of the range are then taken as decommitted) clears the committed bit of
\* every block of the range while the range's inuse bits are still set, and
\* the bits stay clear until the free releases the inuse bits; a free that
\* reports the range fully committed changes no committed bit at that point.
PartialFreeClearsRange ==
  [][ \A t \in Threads :
        LET free_pcs == { "f_purge_now", "f_sched_store", "f_sched_claim", "f_unclaim" }
        IN  /\ (pc[t] = "idle" /\ pc'[t] \in free_pcs) =>
                 LET a   == mi_arenas[loc'[t].arena_idx]
                     a2  == mi_arenas'[loc'[t].arena_idx]
                     run == Run(loc'[t].blocks, loc'[t].bitmap_idx)
                 IN  ~a.memid.is_pinned =>
                       /\ run \subseteq a2.blocks_inuse
                       /\ a2.blocks_inuse = a.blocks_inuse
                       /\ IF run \subseteq a2.mem_committed
                          THEN a2.blocks_committed = a.blocks_committed
                          ELSE /\ a2.blocks_committed = a.blocks_committed \ run
                               /\ run \cap a2.mem_committed = {}
            /\ (pc'[t] \in free_pcs /\ loc'[t].op = "free") =>
                 LET a2  == mi_arenas'[loc'[t].arena_idx]
                     run == Run(loc'[t].blocks, loc'[t].bitmap_idx)
                 IN  (~a2.memid.is_pinned /\ run \cap a2.mem_committed = {}) =>
                        run \cap a2.blocks_committed = {} ]_vars

\* a free of two blocks that reported them not fully committed is about to
\* release its inuse bits: its committed bits are clear in an arena that
\* started committed and whose purges never clear committed bits, beside a
\* block whose committed bit is still set
PartialFreeInFlight ==
  \E t \in Threads :
    /\ pc[t] = "f_unclaim" /\ loc[t].op = "free" /\ loc[t].blocks = 2
    /\ LET a == mi_arenas[loc[t].arena_idx]
       IN  /\ a.memid.initially_committed /\ ~a.memid.is_pinned
           /\ ~opt.os_needs_recommit
           /\ Run(2, loc[t].bitmap_idx) \cap a.blocks_committed = {}
           /\ Run(2, loc[t].bitmap_idx) \subseteq a.blocks_inuse
           /\ \E b \in 0..(a.block_count - 1) : b \in a.blocks_committed


\* ------------------------------------------------- effect of a purge
\* C32 (effect of a purge): the sweep claims inuse bits that were all clear;
\* while it purges and until it releases them it holds them; a purge of a run
\* clears the purge bits of the run, clears its committed bits if and only if
\* the OS purge reported needs_recommit, and changes no other purge or
\* committed bit and no dirty, abandoned or inuse bit; the release clears
\* exactly the inuse bits the sweep claimed.
PurgeEffect ==
  [][ \A t \in Threads :
        LET l    == loc[t]
            a    == mi_arenas[l.i]
            a2   == mi_arenas'[l.i]
            held == Run(l.bitlen, mi_bitmap_index_create(l.fi, l.bitidx))
        IN  /\ (pc[t] = "s_claim" /\ pc'[t] \in { "s_range", "s_release" }) =>
                 /\ held \cap a.blocks_inuse = {}
                 /\ a2.blocks_inuse = a.blocks_inuse \cup held
            /\ (pc[t] \in { "s_range", "s_release" }) => held \subseteq a.blocks_inuse
            /\ (pc[t] = "s_range" /\ (pc'[t] # "s_range" \/ loc'[t] # l)) =>
                 LET run == Run(l.count, mi_bitmap_index_create(l.fi, l.rb))
                 IN  /\ run \subseteq held
                     /\ a2.blocks_purge = a.blocks_purge \ run
                     /\ a2.blocks_committed = IF opt.os_needs_recommit THEN a.blocks_committed \ run
                                              ELSE a.blocks_committed
                     /\ a2.blocks_dirty = a.blocks_dirty
                     /\ a2.blocks_abandoned = a.blocks_abandoned
                     /\ a2.blocks_inuse = a.blocks_inuse
            /\ (pc[t] = "s_release" /\ pc'[t] # "s_release") =>
                 /\ a2.blocks_inuse = a.blocks_inuse \ held
                 /\ a2.blocks_purge = a.blocks_purge
                 /\ a2.blocks_committed = a.blocks_committed ]_vars

\* a sweep has purged a run of two blocks with an OS purge that needs no
\* recommit and is about to release them: their purge bits are clear, their
\* committed bits are still set
PurgedWithoutRecommit ==
  \E t \in Threads :
    /\ pc[t] = "s_release" /\ Cardinality(loc[t].prange) = 2
    /\ ~opt.os_needs_recommit
    /\ loc[t].prange \subseteq mi_arenas[loc[t].i].blocks_committed
    /\ loc[t].prange \cap mi_arenas[loc[t].i].blocks_purge = {}
    /\ loc[t].prange \subseteq mi_arenas[loc[t].i].blocks_inuse


\* ------------------------------- SpecReserve: concurrent reservations
\* arena.c:574-576 and 460-501: an allocation that found no arena calls
\* mi_arena_reserve, which loads mi_arena_count and decides whether to reserve
ReserveLoad(t) ==
  /\ pc[t] = "a_reserve"
  /\ LET l    == loc[t]
         size == mi_arena_reserve_size(l.req.size, l.req.req_arena_id, mi_arena_count)
     IN  IF l.req.req_arena_id # _mi_arena_id_none \/ size = 0
         THEN Goto(t, "a_os", l)
         ELSE Goto(t, "r_os", [ op |-> "alloc", req |-> l.req, max_arena |-> l.max_arena,
                                pass |-> l.pass, i |-> l.i,
                                arena_count |-> mi_arena_count, reserve |-> size ])
  /\ UNCHANGED << mi_arenas, mi_arena_count, purge_guard, abandoned_count, now, opt, statics, segs >>

\* arena.c:535 with 1368-1386, 1307-1353 and 1295: mi_reserve_os_memory_ex gets
\* the memory from the OS (or fails), builds the descriptor, and mi_arena_add
\* increments mi_arena_count
ReserveAdd(t) ==
  /\ pc[t] = "r_os"
  /\ \E os_ok \in BOOLEAN :
       IF os_ok /\ loc[t].reserve >= MI_ARENA_BLOCK_SIZE
       THEN /\ mi_arena_count' = mi_arena_count + 1
            /\ Goto(t, "r_store", [ loc[t] EXCEPT !.i = mi_arena_count ])
       ELSE /\ Goto(t, "a_os", loc[t])
            /\ UNCHANGED mi_arena_count
  /\ UNCHANGED << mi_arenas, purge_guard, abandoned_count, now, opt, statics, segs >>

\* arena.c:1296-1304 and 577-579: with the registry full the increment is taken
\* back and the allocation goes to the OS; else the arena is stored in its slot
\* and the allocation tries it
ReserveStore(t) ==
  /\ pc[t] = "r_store"
  /\ LET l == loc[t]
         a == NewArena(l.reserve, FALSE, -1, FALSE, OsMemid(ArenaEagerCommit, FALSE))
     IN  IF l.i >= MI_MAX_ARENAS
         THEN /\ mi_arena_count' = mi_arena_count - 1
              /\ UNCHANGED mi_arenas
              /\ Goto(t, "a_os", l)
         ELSE /\ mi_arenas' = SetArena(l.i, [ a EXCEPT !.id = mi_arena_id_create(l.i) ])
              /\ UNCHANGED mi_arena_count
              /\ Goto(t, "a_try", [ l EXCEPT !.pass = 3 ])
  /\ UNCHANGED << purge_guard, abandoned_count, now, opt, statics, segs >>

\* The runs of SpecReserve: the registry holds one to three exclusive arenas
\* over external memory; arenas of one block are reserved on demand; the
\* process is preloading or not; nothing is purged or freed.
InitReserve ==
  /\ \E k \in 1..3 :
       LET a  == NewArena(mi_arena_block_size(MI_BITMAP_FIELD_BITS), FALSE, -1, TRUE,
                          ExternalMemid(TRUE, FALSE, FALSE))
           r1 == ArenaAdded(EmptyRegistry, 0, a)
           r2 == ArenaAdded(r1.arenas, r1.count, a)
           r3 == ArenaAdded(r2.arenas, r2.count, a)
           r  == IF k = 1 THEN r1 ELSE IF k = 2 THEN r2 ELSE r3
       IN  /\ mi_arenas = r.arenas
           /\ mi_arena_count = r.count
  /\ \E preloading \in BOOLEAN : opt = Options(-1, MI_ARENA_BLOCK_SIZE, preloading)
  /\ purge_guard = 0
  /\ abandoned_count = 0
  /\ now = 0
  /\ StaticsInit
  /\ segs = [ s \in SegIds |-> NoSeg ]
  /\ pc = [ t \in Threads |-> "idle" ]
  /\ loc = [ t \in Threads |-> Idle ]

\* the threads allocate one block each time, from any arena or from arena 1
NextReserve ==
  \/ \E t \in Threads, req_arena_id \in { _mi_arena_id_none, 1 } :
       AllocEnter(t, Request(MI_ARENA_BLOCK_SIZE, MI_SEGMENT_ALIGN, 0, TRUE, FALSE, req_arena_id, -1))
  \/ \E t \in Threads : AllocTry(t)
  \/ \E t \in Threads : ReserveLoad(t)
  \/ \E t \in Threads : ReserveAdd(t)
  \/ \E t \in Threads : ReserveStore(t)
  \/ \E t \in Threads : AllocOs(t)
  \/ \E t \in Threads : AllocUnclaimPurge(t)
  \/ \E t \in Threads : AllocCommit(t)

SpecReserve == InitReserve /\ [][NextReserve]_vars

\* C34 (reservation cap), as stated: no arena is registered by a reservation
\* while the registry holds more than MI_MAX_ARENAS - 4 arenas.
ReserveNeverAboveCap ==
  [][ \A t \in Threads :
        (pc[t] = "r_os" /\ pc'[t] = "r_store") => mi_arena_count <= MI_MAX_ARENAS - 4 ]_vars

\* C34 (reservation cap), as the code has it: a reservation registers an arena
\* only if the process is not preloading, the request names no arena and the
\* count the reservation loaded was at most MI_MAX_ARENAS - 4; by the time it
\* registers, the other threads may each have registered one arena more.
ReserveCap ==
  [][ \A t \in Threads :
        (pc[t] = "r_os" /\ pc'[t] = "r_store") =>
           /\ ~opt.preloading
           /\ loc[t].req.req_arena_id = _mi_arena_id_none
           /\ loc[t].arena_count <= MI_MAX_ARENAS - 4
           /\ mi_arena_count <= (MI_MAX_ARENAS - 4) + (NThreads - 1) ]_vars

\* a reservation registers its arena above the cap: the other thread
\* registered one after this thread had loaded the count
ReservedAboveCap ==
  \E t \in Threads :
    /\ pc[t] = "r_store" /\ loc[t].i > MI_MAX_ARENAS - 4
    /\ loc[t].arena_count = MI_MAX_ARENAS - 4
    /\ mi_arenas[MI_MAX_ARENAS - 4] # NULL

\* ------------------------------------ SpecBlocks: the size of an arena
\* arena.c:1357-1363 and 1368-1375: mi_manage_os_memory_ex ("manage") is called
\* with a region of `size`; mi_reserve_os_memory_ex ("reserve") with a size that
\* it rounds up to whole blocks before it asks the OS for the region
ManageEnter(t, entry, size) ==
  /\ pc[t] = "idle"
  /\ mi_arena_count < MaxManaged
  /\ Goto(t, "m_build", [ op |-> entry, size |-> size,
                          region |-> IF entry = "reserve" THEN _mi_align_up(size, MI_ARENA_BLOCK_SIZE)
                                     ELSE size ])
  /\ UNCHANGED << mi_arenas, mi_arena_count, purge_guard, abandoned_count, now, opt, statics, segs >>

\* arena.c:1372-1376 and 1307-1353: the OS may refuse the region of a
\* reservation; a region below one block is rejected; else the descriptor is built
ManageBuild(t) ==
  /\ pc[t] = "m_build"
  /\ LET l == loc[t]
     IN  \E os_ok \in BOOLEAN :
           IF (l.op = "reserve" /\ ~os_ok) \/ l.region < MI_ARENA_BLOCK_SIZE
           THEN Return(t)
           ELSE Goto(t, "m_add",
                     [ op |-> l.op, size |-> l.size, region |-> l.region,
                       arena |-> NewArena(l.region, FALSE, -1, FALSE,
                                          IF l.op = "reserve" THEN OsMemid(TRUE, FALSE)
                                          ELSE ExternalMemid(TRUE, FALSE, FALSE)) ])
  /\ UNCHANGED << mi_arenas, mi_arena_count, purge_guard, abandoned_count, now, opt, statics, segs >>

\* arena.c:1355 with 1289-1305: mi_arena_add registers the descriptor
ManageAdd(t) ==
  /\ pc[t] = "m_add"
  /\ LET r == ArenaAdded(mi_arenas, mi_arena_count, loc[t].arena)
     IN  /\ mi_arenas' = r.arenas
         /\ mi_arena_count' = r.count
  /\ Return(t)
  /\ UNCHANGED << purge_guard, abandoned_count, now, opt, statics, segs >>

\* the region sizes of the runs: from below one block to just above ArenaBlocks blocks
RegionSizes == 1..(mi_arena_block_size(ArenaBlocks) + 1)

\* The runs of SpecBlocks: one thread registers arenas over regions of all
\* sizes, by mi_manage_os_memory or by mi_reserve_os_memory.
NextBlocks ==
  \/ \E entry \in { "manage", "reserve" }, size \in RegionSizes : ManageEnter(1, entry, size)
  \/ ManageBuild(1)
  \/ ManageAdd(1)

SpecBlocks == InitSelect /\ [][NextBlocks]_vars

\* C35 (block count), as stated: the arena built over a region of `size` has
\* ceil(size / MI_ARENA_BLOCK_SIZE) blocks.
BlockCountIsCeil ==
  \A t \in Threads :
    pc[t] = "m_add" =>
      loc[t].arena.block_count = _mi_divide_up(loc[t].size, MI_ARENA_BLOCK_SIZE)

\* C35 (block count), as the code has it: mi_manage_os_memory accepts a size of
\* at least one block and the arena has floor(size / MI_ARENA_BLOCK_SIZE)
\* blocks; mi_reserve_os_memory rounds the size up to whole blocks first, so
\* its arena has ceil(size / MI_ARENA_BLOCK_SIZE) blocks; in both cases
\* field_count = ceil(block_count / MI_BITMAP_FIELD_BITS).
BlockCount ==
  \A t \in Threads :
    pc[t] = "m_add" =>
      LET l == loc[t]
      IN  /\ l.op = "manage" =>
                /\ l.size >= MI_ARENA_BLOCK_SIZE
                /\ l.arena.block_count = l.size \div MI_ARENA_BLOCK_SIZE
          /\ l.op = "reserve" =>
                l.arena.block_count = _mi_divide_up(l.size, MI_ARENA_BLOCK_SIZE)
          /\ l.arena.block_count > 0
          /\ l.arena.field_count = _mi_divide_up(l.arena.block_count, MI_BITMAP_FIELD_BITS)
          /\ mi_arena_block_size(l.arena.block_count) <= l.region

\* mi_manage_os_memory has built an arena over a region that ends inside a block
PartialBlockRegion ==
  \E t \in Threads :
    /\ pc[t] = "m_add" /\ loc[t].op = "manage"
    /\ loc[t].size % MI_ARENA_BLOCK_SIZE # 0
    /\ loc[t].arena.block_count = 2 /\ loc[t].arena.field_count = 1
    /\ mi_arena_count > 0

\* ------------------------------------------- append-only registry
\* C36 (append-only registry): under concurrent registrations and readers, a
\* registration in flight that will succeed has an index below MI_MAX_ARENAS
\* that no other registration in flight has and whose slot is still empty; an
\* arena in slot i has id i + 1 and mi_arena_count is above i; a slot that
\* holds an arena keeps that arena in every step.
RegistryAppendOnly ==
  [][ LET Sound(arenas, count, pc_, loc_) ==
            /\ \A i \in ArenaIdx :
                 arenas[i] # NULL => i < MI_MAX_ARENAS /\ arenas[i].id = i + 1 /\ count > i
            /\ \A t \in Threads :
                 (pc_[t] = "add_store" /\ loc_[t].i < MI_MAX_ARENAS) =>
                    /\ arenas[loc_[t].i] = NULL
                    /\ count > loc_[t].i
                    /\ \A u \in Threads \ { t } : pc_[u] = "add_store" => loc_[u].i # loc_[t].i
      IN  /\ Sound(mi_arenas, mi_arena_count, pc, loc)
          /\ Sound(mi_arenas', mi_arena_count', pc', loc')
          /\ \A i \in ArenaIdx : mi_arenas[i] # NULL => mi_arenas'[i] = mi_arenas[i] ]_vars

\* the registry is full, one registration has failed and taken its increment
\* back, another has just been refused an index and not yet done so
FullRegistryRefusing ==
  /\ \A i \in ArenaIdx : mi_arenas[i] # NULL
  /\ mi_arena_count = MI_MAX_ARENAS + 1
  /\ \E t \in Threads : pc[t] = "add_store" /\ loc[t].i >= MI_MAX_ARENAS
  /\ \E t \in Threads : pc[t] = "walk"

\* ------------------------------------ SpecLarge: large OS pages (prim.c)
\* prim.c:402: does the request try large OS pages at all?
WantsLarge(large_only, allow_large, use_large) == (large_only \/ use_large) /\ allow_large

\* prim.c:406 with every request honouring the counter
SkipsLargeBug(large_only, try_ok) == try_ok > 0
\* prim.c:406: a request that is not large_only skips the large-page attempt
\* while the counter it loaded is positive
SkipsLarge(large_only, try_ok) == ~large_only /\ try_ok > 0

\* prim.c:348-405: unix_mmap is entered by _mi_prim_alloc (large_only false) or
\* by _mi_prim_alloc_huge_os_pages (large_only and allow_large true); a request
\* that may use large pages loads large_page_try_ok
MmapEnter(t, large_only, allow_large, use_large) ==
  /\ pc[t] = "idle"
  /\ LET l == [ op |-> "mmap", large_only |-> large_only, allow_large |-> allow_large,
                use_large |-> use_large, try_ok |-> large_page_try_ok,
                skipped |-> FALSE, cas_ok |-> FALSE, tried |-> FALSE, p |-> FALSE, is_large |-> FALSE ]
     IN  IF WantsLarge(large_only, allow_large, use_large)
         THEN Goto(t, "mm_large", l)
         ELSE Goto(t, "mm_regular", [ l EXCEPT !.try_ok = 0 ])
  /\ UNCHANGED << mi_arenas, mi_arena_count, purge_guard, abandoned_count, now, opt, segs, statics >>

\* prim.c:406-495: either the request skips the large pages and tries once to
\* decrement the counter (a compare-and-swap against the value it loaded, not
\* repeated), or it maps large pages (1GiB, then 2MiB pages: `ok` is the
\* outcome of the last try); a large_only request returns what it got; any
\* other request that failed stores 8 in the counter and goes on
MmapLarge(t) ==
  /\ pc[t] = "mm_large"
  /\ LET l == loc[t]
     IN  IF SkipsLarge(l.large_only, l.try_ok)
         THEN /\ large_page_try_ok' = IF large_page_try_ok = l.try_ok THEN l.try_ok - 1
                                      ELSE large_page_try_ok
              /\ Goto(t, "mm_regular", [ l EXCEPT !.skipped = TRUE,
                                                  !.cas_ok = (large_page_try_ok = l.try_ok) ])
         ELSE \E ok \in BOOLEAN :
                LET r == [ l EXCEPT !.tried = TRUE, !.p = ok, !.is_large = TRUE ]
                IN  IF l.large_only \/ ok
                    THEN /\ Goto(t, "mm_done", r)
                         /\ UNCHANGED large_page_try_ok
                    ELSE /\ large_page_try_ok' = 8
                         /\ Goto(t, "mm_regular", r)
  /\ UNCHANGED << mi_arenas, mi_arena_count, purge_guard, abandoned_count, now, opt, segs,
                  mi_arena_static_top, mi_arena_static, static_ranges >>

\* prim.c:498-544: the regular mapping; madvise may turn it into large pages
MmapRegular(t) ==
  /\ pc[t] = "mm_regular"
  /\ \E ok \in BOOLEAN, advised \in BOOLEAN :
       Goto(t, "mm_done",
            [ loc[t] EXCEPT !.p = ok,
                            !.is_large = ok /\ advised /\ loc[t].allow_large /\ loc[t].use_large ])
  /\ UNCHANGED << mi_arenas, mi_arena_count, purge_guard, abandoned_count, now, opt, segs, statics >>

\* prim.c:546: unix_mmap returns p
MmapReturn(t) ==
  /\ pc[t] = "mm_done"
  /\ Return(t)
  /\ UNCHANGED << mi_arenas, mi_arena_count, purge_guard, abandoned_count, now, opt, segs, statics >>

\* The runs of SpecLarge: the threads map memory concurrently, by _mi_prim_alloc
\* or by _mi_prim_alloc_huge_os_pages; every mmap may fail.
NextLarge ==
  \/ \E t \in Threads, allow_large \in BOOLEAN, use_large \in BOOLEAN :
       MmapEnter(t, FALSE, allow_large, use_large)
  \/ \E t \in Threads : MmapEnter(t, TRUE, TRUE, TRUE)
  \/ \E t \in Threads : MmapLarge(t)
  \/ \E t \in Threads : MmapRegular(t)
  \/ \E t \in Threads : MmapReturn(t)

SpecLarge == Init /\ [][NextLarge]_vars

\* C37 (sticky large-page suppression), as stated: every failed attempt to map
\* large pages, a huge-page reservation included, arms the counter with 8, and
\* every request that skips the attempt takes one off the counter.
FailureArmsEverySkipCounts ==
  [][ \A t \in Threads :
        (pc[t] = "mm_large" /\ pc'[t] # "mm_large") =>
           /\ (loc'[t].tried /\ ~loc'[t].p) => large_page_try_ok' = 8
           /\ loc'[t].skipped => large_page_try_ok' = large_page_try_ok - 1 ]_vars

\* C37 (sticky large-page suppression), as the code has it: the counter stays
\* within 0..8; a request that is not large_only skips the large pages iff the
\* counter it loaded was positive, and then takes one off the counter only if
\* the counter still has the loaded value; a request that tries and fails
\* stores 8 unless it is large_only; a large_only request (huge-page
\* reservation) always tries, and leaves the counter alone.
LargePageSuppression ==
  [][ /\ large_page_try_ok \in 0..8 /\ large_page_try_ok' \in 0..8
      /\ \A t \in Threads :
           (pc[t] = "mm_large" /\ pc'[t] # "mm_large") =>
              LET l == loc[t]
                  r == loc'[t]
              IN  IF ~l.large_only /\ l.try_ok > 0
                  THEN /\ r.skipped /\ ~r.tried /\ pc'[t] = "mm_regular"
                       /\ large_page_try_ok' = IF large_page_try_ok = l.try_ok THEN l.try_ok - 1
                                               ELSE large_page_try_ok
                  ELSE /\ r.tried /\ ~r.skipped
                       /\ r.p => (pc'[t] = "mm_done" /\ UNCHANGED large_page_try_ok)
                       /\ (~r.p /\ l.large_only) => (pc'[t] = "mm_done" /\ UNCHANGED large_page_try_ok)
                       /\ (~r.p /\ ~l.large_only) => (pc'[t] = "mm_regular" /\ large_page_try_ok' = 8) ]_vars

\* a request has skipped the large pages without taking one off the counter,
\* which has gone down by one for two skips
SkipNotCounted ==
  \E t \in Threads :
    /\ pc[t] = "mm_regular" /\ loc[t].skipped /\ ~loc[t].cas_ok
    /\ loc[t].try_ok = 8 /\ large_page_try_ok = 7

\* ------------------------- SpecInterleave: huge pages over NUMA nodes
\* os.c (not in src/): the number of NUMA nodes of the machine
_mi_os_numa_node_count == 2

\* arena.c:1487-1491 with the remainder given to the last nodes
NodePagesLastBug(pages_per, pages_mod, numa_count, numa_node) ==
  IF numa_node >= numa_count - pages_mod THEN pages_per + 1 ELSE pages_per
\* arena.c:1495-1496: the share of node `numa_node`
NodePages(pages_per, pages_mod, numa_count, numa_node) ==
  IF numa_node < pages_mod THEN pages_per + 1 ELSE pages_per

\* arena.c:1483-1491: mi_reserve_huge_os_pages_interleave(pages, numa_nodes);
\* reqs and added record the requests made and the arenas registered so far
InterleaveEnter(t, pages, numa_nodes) ==
  /\ pc[t] = "idle"
  /\ mi_arena_count < MI_MAX_ARENAS - 1
  /\ LET numa_count == IF numa_nodes > 0 THEN numa_nodes ELSE _mi_os_numa_node_count
         l == [ op |-> "interleave", pages0 |-> pages, numa_nodes |-> numa_nodes,
                pages |-> pages, numa_count |-> numa_count,
                pages_per |-> pages \div numa_count, pages_mod |-> pages % numa_count,
                numa_node |-> 0, err |-> 0, reqs |-> << >>, added |-> {} ]
     IN  Goto(t, IF pages = 0 THEN "il_done" ELSE "il_node", l)
  /\ UNCHANGED << mi_arenas, mi_arena_count, purge_guard, abandoned_count, now, opt, segs, statics >>

\* arena.c:1493-1506 with 1457-1477: one round of the loop: the share of the
\* node is reserved by mi_reserve_huge_os_pages_at (the OS gives all, some or
\* none of the pages; one page is one block here) and registered as a pinned
\* arena on node numa_node % _mi_os_numa_node_count(); an error ends the call
InterleaveNode(t) ==
  /\ pc[t] = "il_node"
  /\ LET l == loc[t]
     IN  IF ~(l.numa_node < l.numa_count /\ l.pages > 0)
         THEN /\ Goto(t, "il_done", l)
              /\ UNCHANGED << mi_arenas, mi_arena_count >>
         ELSE LET node_pages == NodePages(l.pages_per, l.pages_mod, l.numa_count, l.numa_node)
                  asked      == [ l EXCEPT !.reqs = Append(l.reqs, node_pages) ]
              IN  IF node_pages = 0
                  THEN /\ Goto(t, "il_node", [ asked EXCEPT !.numa_node = l.numa_node + 1 ])
                       /\ UNCHANGED << mi_arenas, mi_arena_count >>
                  ELSE \E pages_reserved \in 0..node_pages :
                         LET a == NewArena(mi_arena_block_size(pages_reserved), TRUE,
                                           l.numa_node % _mi_os_numa_node_count, FALSE,
                                           OsMemid(TRUE, TRUE))
                             r == ArenaAdded(mi_arenas, mi_arena_count, a)
                         IN  IF pages_reserved = 0 \/ ~r.ok
                             THEN /\ Goto(t, "il_done", [ asked EXCEPT !.err = 1 ])
                                  /\ UNCHANGED << mi_arenas, mi_arena_count >>
                             ELSE /\ mi_arenas' = r.arenas
                                  /\ mi_arena_count' = r.count
                                  /\ Goto(t, "il_node",
                                          [ asked EXCEPT !.numa_node = l.numa_node + 1,
                                                         !.added = l.added \cup { r.id },
                                                         !.pages = IF l.pages < node_pages THEN 0
                                                                   ELSE l.pages - node_pages ])
  /\ UNCHANGED << purge_guard, abandoned_count, now, opt, segs, statics >>

\* arena.c:1499 and 1508: the call returns err or 0
InterleaveReturn(t) ==
  /\ pc[t] = "il_done"
  /\ Return(t)
  /\ UNCHANGED << mi_arenas, mi_arena_count, purge_guard, abandoned_count, now, opt, segs, statics >>

\* The runs of SpecInterleave: one thread reserves 0 to 5 huge pages over 0 (all
\* nodes of the machine) to 3 nodes, again and again while the registry has room.
NextInterleave ==
  \/ \E pages \in 0..5, numa_nodes \in 0..3 : InterleaveEnter(1, pages, numa_nodes)
  \/ InterleaveNode(1)
  \/ InterleaveReturn(1)

SpecInterleave == InitSelect /\ [][NextInterleave]_vars

RECURSIVE SumSeq(_)
SumSeq(q) == IF q = << >> THEN 0 ELSE Head(q) + SumSeq(Tail(q))

\* C38 (interleaved huge-page reservation): the requests go to the nodes 0, 1,
\* ... in order, each for a positive number of pages, any two differing by at
\* most one; every request but the last succeeded and registered one arena; a
\* call that returns an error made its last request in vain, and a call that
\* returns 0 has asked for exactly `pages` pages in all, with one arena for
\* each node that has a share.
InterleaveShares ==
  \A t \in Threads :
    pc[t] \in { "il_node", "il_done" } =>
      LET l == loc[t]
          n == Len(l.reqs)
      IN  /\ n <= l.numa_count
          /\ \A j \in 1..n, k \in 1..n :
               /\ l.reqs[j] > 0
               /\ l.reqs[j] - l.reqs[k] \in { -1, 0, 1 }
               /\ j < k => l.reqs[j] >= l.reqs[k]
          /\ l.numa_node = (IF l.err = 0 THEN n ELSE n - 1)
          /\ Cardinality(l.added) = l.numa_node
          /\ \A id \in l.added :
               /\ mi_arenas[mi_arena_id_index(id)] # NULL
               /\ mi_arenas[mi_arena_id_index(id)].is_large
          /\ l.err # 0 => (pc[t] = "il_done" /\ n > 0)
          /\ (pc[t] = "il_done" /\ l.err = 0) =>
               /\ SumSeq(l.reqs) = l.pages0
               /\ n = (IF l.pages0 < l.numa_count THEN l.pages0 ELSE l.numa_count)

\* five pages over three nodes: shares 2, 2, 1, all reserved
UnevenSharesReserved ==
  \E t \in Threads :
    /\ pc[t] = "il_done" /\ loc[t].err = 0
    /\ loc[t].reqs = << 2, 2, 1 >>
    /\ Cardinality(loc[t].added) = 3

\* --------------------------------------- SpecDestroy: unsafe teardown
\* arena.c:1105-1106 and 1059-1062: _mi_arena_unsafe_destroy_all calls
\* mi_arenas_unsafe_destroy, which loads mi_arena_count
DestroyEnter(t) ==
  /\ pc[t] = "idle"
  /\ Goto(t, "d_arena", [ op |-> "destroy", max_arena |-> mi_arena_count, new_max_arena |-> 0, i |-> 0 ])
  /\ UNCHANGED << mi_arenas, mi_arena_count, purge_guard, abandoned_count, now, opt, segs, statics >>

\* arena.c:1066-1093: one round of the loop: the slot of an arena over OS memory
\* is cleared and its memory freed; for any other arena new_max_arena becomes
\* its index (the descriptors lie in the static meta-arena, where
\* mi_arena_meta_free leaves them)
DestroyArena(t) ==
  /\ pc[t] = "d_arena"
  /\ LET l     == loc[t]
         arena == mi_arenas[l.i]
     IN  IF l.i >= l.max_arena
         THEN Goto(t, "d_cas", l) /\ UNCHANGED mi_arenas
         ELSE IF arena = NULL
         THEN Goto(t, "d_arena", [ l EXCEPT !.i = l.i + 1 ]) /\ UNCHANGED mi_arenas
         ELSE IF mi_memkind_is_os(arena.memid.memkind)
         THEN /\ mi_arenas' = SetArena(l.i, NULL)
              /\ Goto(t, "d_arena", [ l EXCEPT !.i = l.i + 1 ])
         ELSE /\ Goto(t, "d_arena", [ l EXCEPT !.i = l.i + 1, !.new_max_arena = l.i ])
              /\ UNCHANGED mi_arenas
  /\ UNCHANGED << mi_arena_count, purge_guard, abandoned_count, now, opt, segs, statics >>

\* arena.c:1096-1097 and 1107: mi_arena_count is lowered to new_max_arena if it
\* still has the value loaded; then the forced collect begins
DestroyFinish(t) ==
  /\ pc[t] = "d_cas"
  /\ mi_arena_count' = IF mi_arena_count = loc[t].max_arena THEN loc[t].new_max_arena
                       ELSE mi_arena_count
  /\ Goto(t, "s_enter", SweepLocals(TRUE, TRUE))
  /\ UNCHANGED << mi_arenas, purge_guard, abandoned_count, now, opt, segs, statics >>

\* The runs of SpecDestroy: beside the arena of start-up (external memory, slot
\* 0) one thread registers arenas over external or reserved OS memory, tears
\* the arenas down, and registers again.
NextDestroy ==
  \/ \E entry \in { "manage", "reserve" } : ManageEnter(1, entry, mi_arena_block_size(MI_BITMAP_FIELD_BITS))
  \/ ManageBuild(1)
  \/ ManageAdd(1)
  \/ DestroyEnter(1)
  \/ DestroyArena(1)
  \/ DestroyFinish(1)
  \/ SweepEnter(1)
  \/ SweepArena(1)

SpecDestroy == Init /\ [][NextDestroy]_vars

\* C39 (unsafe teardown): every arena the registry holds, before, during and
\* after a teardown, lies at an index below mi_arena_count.
RetainedBelowCount ==
  \A i \in ArenaIdx : mi_arenas[i] # NULL => i < mi_arena_count

\* ------------------------------------ SpecStatic: the static meta-arena
\* arena.c:146: the size of mi_arena_static (bytes; 8 KiB in the build)
MI_ARENA_STATIC_MAX == 8
\* types.h (not in src/): the least alignment of an allocation (16 in the build)
MI_MAX_ALIGN_SIZE == 2

\* arena.c:160 without the room for the alignment
OversizeBug(size, alignment) == size
\* arena.c:160: the bytes claimed for `size` bytes at `alignment`
Oversize(size, alignment) == size + alignment - 1

\* the bytes start .. start + size - 1 of mi_arena_static
StaticRange(start, size) == start..(start + size - 1)

\* arena.c:152-161: mi_arena_static_zalloc(size, alignment) rejects an empty or
\* oversized request, loads mi_arena_static_top and rejects what does not fit
ZallocEnter(t, size, alignment) ==
  /\ pc[t] = "idle"
  /\ LET toplow   == mi_arena_static_top
         align    == IF alignment < MI_MAX_ALIGN_SIZE THEN MI_MAX_ALIGN_SIZE ELSE alignment
         oversize == Oversize(size, align)
         l == [ op |-> "zalloc", size |-> size, alignment |-> align, toplow |-> toplow,
                oversize |-> oversize, oldtop |-> 0, top |-> 0, start |-> 0, ok |-> FALSE ]
     IN  IF size = 0 \/ size > MI_ARENA_STATIC_MAX
            \/ toplow + size > MI_ARENA_STATIC_MAX \/ toplow + oversize > MI_ARENA_STATIC_MAX
         THEN Goto(t, "z_done", l)
         ELSE Goto(t, "z_add", l)
  /\ UNCHANGED << mi_arenas, mi_arena_count, purge_guard, abandoned_count, now, opt, segs, statics >>

\* arena.c:162-164: the atomic add that claims the bytes
ZallocAdd(t) ==
  /\ pc[t] = "z_add"
  /\ LET l      == loc[t]
         oldtop == mi_arena_static_top
         top    == oldtop + l.oversize
     IN  /\ mi_arena_static_top' = top
         /\ IF top > MI_ARENA_STATIC_MAX
            THEN Goto(t, "z_rollback", [ l EXCEPT !.oldtop = oldtop, !.top = top ])
            ELSE Goto(t, "z_zero", [ l EXCEPT !.oldtop = oldtop, !.top = top,
                                              !.start = _mi_align_up(oldtop, l.alignment) ])
  /\ UNCHANGED << mi_arenas, mi_arena_count, purge_guard, abandoned_count, now, opt, segs,
                  large_page_try_ok, mi_arena_static, static_ranges >>

\* arena.c:165-167: the add went past the end: the bytes are given back if no
\* other thread has moved the top since, and the request fails
ZallocRollback(t) ==
  /\ pc[t] = "z_rollback"
  /\ mi_arena_static_top' = IF mi_arena_static_top = loc[t].top THEN loc[t].oldtop
                            ELSE mi_arena_static_top
  /\ Goto(t, "z_done", loc[t])
  /\ UNCHANGED << mi_arenas, mi_arena_count, purge_guard, abandoned_count, now, opt, segs,
                  large_page_try_ok, mi_arena_static, static_ranges >>

\* arena.c:170-175: the range is zeroed
ZallocZero(t) ==
  /\ pc[t] = "z_zero"
  /\ mi_arena_static' = mi_arena_static \ StaticRange(loc[t].start, loc[t].size)
  /\ Goto(t, "z_done", [ loc[t] EXCEPT !.ok = TRUE ])
  /\ UNCHANGED << mi_arenas, mi_arena_count, purge_guard, abandoned_count, now, opt, segs,
                  large_page_try_ok, mi_arena_static_top, static_ranges >>

\* arena.c:168 and 176: NULL or the range is returned to the caller
ZallocReturn(t) ==
  /\ pc[t] = "z_done"
  /\ static_ranges' = IF loc[t].ok
                      THEN static_ranges \cup { [ start |-> loc[t].start, size |-> loc[t].size ] }
                      ELSE static_ranges
  /\ Return(t)
  /\ UNCHANGED << mi_arenas, mi_arena_count, purge_guard, abandoned_count, now, opt, segs,
                  large_page_try_ok, mi_arena_static_top, mi_arena_static >>

\* arena.c:1323-1353: a caller fills the range it got (an arena descriptor)
StaticWrite ==
  /\ \E r \in static_ranges :
       /\ ~(StaticRange(r.start, r.size) \subseteq mi_arena_static)
       /\ mi_arena_static' = mi_arena_static \cup StaticRange(r.start, r.size)
  /\ UNCHANGED << mi_arenas, mi_arena_count, purge_guard, abandoned_count, now, opt, segs,
                  pc, loc, large_page_try_ok, mi_arena_static_top, static_ranges >>

\* The runs of SpecStatic: the threads allocate from the static meta-arena
\* concurrently, nothing to more than the whole buffer at a time, and fill
\* what they got.
NextStatic ==
  \/ \E t \in Threads, size \in { 0, 1, 3, MI_ARENA_STATIC_MAX - 1, MI_ARENA_STATIC_MAX + 1 },
        alignment \in { 1, MI_MAX_ALIGN_SIZE, 2 * MI_MAX_ALIGN_SIZE } :
       ZallocEnter(t, size, alignment)
  \/ \E t \in Threads : ZallocAdd(t)
  \/ \E t \in Threads : ZallocRollback(t)
  \/ \E t \in Threads : ZallocZero(t)
  \/ \E t \in Threads : ZallocReturn(t)
  \/ StaticWrite

SpecStatic == Init /\ [][NextStatic]_vars

\* C40 (static meta-arena): under concurrent allocations, the range of every
\* allocation that has claimed its bytes lies inside the static buffer, starts
\* at a multiple of its alignment, and shares no byte with a range returned
\* before or with the range of another allocation under way; a range about to
\* be returned is all zero; a request of size 0, or one that does not fit
\* above the top it loaded, returns NULL.
StaticZallocSound ==
  LET Held(t) == pc[t] = "z_zero" \/ (pc[t] = "z_done" /\ loc[t].ok)
      R(t)    == StaticRange(loc[t].start, loc[t].size)
  IN  /\ \A t \in Threads :
           Held(t) =>
             /\ loc[t].size > 0
             /\ R(t) \subseteq 0..(MI_ARENA_STATIC_MAX - 1)
             /\ loc[t].start % loc[t].alignment = 0
             /\ \A r \in static_ranges : R(t) \cap StaticRange(r.start, r.size) = {}
             /\ \A u \in Threads \ { t } : Held(u) => R(t) \cap R(u) = {}
             /\ pc[t] = "z_done" => R(t) \cap mi_arena_static = {}
      /\ \A t \in Threads :
           (pc[t] = "z_done"
              /\ (loc[t].size = 0 \/ loc[t].toplow + loc[t].size > MI_ARENA_STATIC_MAX)) => ~loc[t].ok
      /\ \A r \in static_ranges :
           StaticRange(r.start, r.size) \subseteq 0..(MI_ARENA_STATIC_MAX - 1)

\* two allocations have succeeded side by side, a third went past the end and
\* is about to give its bytes back, and the first range has been filled
StaticRaceAtEnd ==
  \E t \in Threads, u \in Threads :
    /\ pc[t] = "z_rollback" /\ pc[u] = "z_done" /\ loc[u].ok
    /\ static_ranges # {}
    /\ mi_arena_static # {}
    /\ mi_arena_static_top > MI_ARENA_STATIC_MAX

\* ------------------------------------------------- sweep scope
\* C33 (sweep scope), as stated: a forced collect that returns has left no
\* purge-marked free block in any registered arena.  Here: a forced collect
\* does not return straight from its entry while such blocks exist.
ForcedCollectPurgesAll ==
  [][ \A t \in Threads :
        (pc[t] = "s_enter" /\ loc[t].force /\ pc'[t] = "idle") =>
           \A i \in ArenaIdx :
             mi_arenas[i] # NULL => mi_arenas[i].blocks_purge \ mi_arenas[i].blocks_inuse = {} ]_vars

\* C33 (sweep scope), as the code has it: a sweep that got past the guard
\* works on an arena only if its purge_expire is not 0 and, unless forced, has
\* passed; a sweep that is not forced ends its walk after the first arena in
\* which it claimed blocks; a forced collect goes through the arenas that were
\* registered when it began one by one, works on each whose purge_expire is
\* not 0 whatever the deadline, and returns only after the last.
SweepScope ==
  [][ \A t \in Threads :
        LET l == loc[t]
            moved == pc'[t] # pc[t] \/ loc'[t] # l
        IN  /\ (pc[t] = "s_arena" /\ pc'[t] = "s_cas") =>
                 /\ mi_arenas[l.i].purge_expire # 0
                 /\ l.force \/ mi_arenas[l.i].purge_expire <= l.now
            /\ (pc[t] = "s_resched" /\ moved /\ ~l.visit_all /\ l.any_purged) =>
                 loc'[t].i = l.max_arena
            /\ (pc[t] = "s_arena" /\ moved /\ l.force /\ l.visit_all) =>
                 IF l.i >= l.max_arena THEN pc'[t] = "idle"
                 ELSE IF mi_arenas[l.i] # NULL /\ ~mi_arenas[l.i].memid.is_pinned
                         /\ mi_arenas[l.i].purge_expire # 0
                 THEN pc'[t] = "s_cas" /\ loc'[t].i = l.i
                 ELSE pc'[t] = "s_arena" /\ loc'[t].i = l.i + 1
            /\ (pc[t] = "s_resched" /\ moved /\ l.visit_all) =>
                 pc'[t] = "s_arena" /\ loc'[t].i = l.i + 1 ]_vars

\* a forced collect has purged in arena 0 and now works on arena 1, whose
\* deadline has not passed
ForcedBeforeDeadline ==
  \E t \in Threads :
    /\ pc[t] = "s_cas" /\ loc[t].force /\ loc[t].i = 1
    /\ loc[t].max_purge_count = 1
    /\ mi_arenas[1].purge_expire > loc[t].now
    /\ mi_arenas[1].blocks_purge \ mi_arenas[1].blocks_inuse # {}

====
